---- MODULE Spec2Model ----
(***************************************************************************)
(* Model of the `start` workflow of expo-electron (src/cli.js): the        *)
(* readiness race over the candidate dev-server URLs and the dual-process  *)
(* supervisor (expo web server + electron shell) with its exit handlers,   *)
(* liveness poll and signal handlers.                                      *)
(*                                                                         *)
(* Conventions                                                             *)
(*   - a JavaScript value that is `null`/absent is the empty sequence <<>>,*)
(*     a number n is <<n>> (so `typeof code === 'number'` is Len(code)=1); *)
(*   - an absent string (unset environment variable, null URL) is "";      *)
(*   - the runtime (node/libuv/OS) is the environment: children die, libuv *)
(*     reaps them and then emits 'exit', timers fire, requests fail.       *)
(***************************************************************************)
EXTENDS Integers, Sequences, FiniteSets, TLC

(* ------------------------------ bounds --------------------------------- *)
\* granularity of the modelled clock, in milliseconds
TickMs == 60000
\* number of external signals the supervisor process receives in one run
MaxSignals == 2

(* ------------------------- program constants --------------------------- *)
TIMEOUT_MS == 120000

Children == {"expo", "electron"}
\* the binaries the CLI runs: EXPO_CMD, ELECTRON_CMD, ELECTRON_FORGE_CMD
Tools == Children \cup {"electron-forge"}
Signals == {"SIGINT", "SIGTERM", "SIGHUP"}
\* exit codes a child can end with; <<>> is the `null` code of a child that
\* was terminated by a signal
ChildCodes == {<<>>, <<1>>}
\* HTTP status codes a listening server may answer with
Statuses == {200, 503}

Url19006 == "http://localhost:19006"
Url8081 == "http://localhost:8081"
UrlCustom == "http://devhost:3000"
Urls == {Url19006, Url8081, UrlCustom}
\* values of process.env.EXPO_WEB_URL when the CLI starts ("" = unset)
EnvUrls == {"", UrlCustom}

VARIABLES
    pc,               \* position of start(): init, probing, raceWon, raceLost,
                      \* supervising, exited (process.exit), killed (default
                      \* signal disposition)
    envUrl,           \* process.env.EXPO_WEB_URL
    devUrl,           \* the module constant DEV_URL, computed at load
    reachable,        \* candidate URLs on which some server answers
    now,              \* Date.now() - start, in ms
    child,            \* per child: none, spawnerr ('error' queued), failed,
                      \* running, zombie (dead, not reaped), pending (reaped,
                      \* 'exit' queued), exited ('exit' emitted)
    childCode,        \* code the child's 'exit' event carries
    probe,            \* per URL: none, inflight, resolved, rejected
    overallFired,     \* the overall race timer has fired
    resolvedUrl,      \* start's resolvedUrl ("" = null)
    lastResp,         \* <<url, status>> of the response received while the
                      \* race was open (<<>> = none)
    shellEnvUrl,      \* EXPO_WEB_URL in the env handed to electron
    isShuttingDown,
    finalized,
    livenessInterval, \* TRUE while the setInterval timer is installed
    exited,           \* <<>> while the CLI process runs, <<code>> after exit
    finalizeRuns,     \* times the body of finalizeExit ran past its guard
    timerClears,      \* times clearInterval(livenessInterval) ran
    sigints,          \* per child: SIGINTs the supervisor delivered to it
    finalizedBy,      \* event whose handler ran finalizeExit's body
    triggerCode,      \* code argument of that finalizeExit call
    handlerRan,       \* per child: its 'exit' listener has run
    sigSeen,          \* external signals received so far
    firstSignal,      \* first external signal received ("" = none)
    spawns,           \* per child: calls of child_process.spawn for it
    rev,              \* revision of pack() that runs: "cli.js" or "part_001"
    argv,             \* process.argv.slice(2), each argument a character sequence
    makeMakers,       \* pack's argument: <<>> = null, <<tokens>> = an array
    helpOut,          \* stdout+stderr of `expo --help` (<<>> = not run yet)
    wsExists,         \* electron/.build exists
    ws,               \* files under electron/.build, path -> content
    indexHtml,        \* electron/.build/app/index.html: <<>> absent, <<text>>
    workPkgMakers,    \* config.forge.makers of the written workspace
                      \* package.json: <<>> = not written, <<list>> = written
    trace,            \* stage events of this run, in order: <<stage, event>>
    cmds,             \* command lines of the external commands run, in order
    htmlIn,           \* the exported index.html text before any transform
    passes,           \* times the post-export transform was applied to it
    tree,             \* the directory trees on disk the command works on
                      \* (the project's electron/ folder, the package's
                      \* template): path -> "" (absent), "dir" or the content
                      \* of a file
    tree0,            \* that tree when the command was invoked
    copies,           \* calls of copyRecursiveSkipExisting on the tree
    runs,             \* invocations of the CLI so far, this one included
    installed,        \* the tools present in node_modules/.bin
    shell             \* the Electron main process: NODE_ENV and EXPO_WEB_URL
                      \* of its environment, whether app/index.html exists
                      \* next to its main folder, what its window was told
                      \* to load

supVars == <<isShuttingDown, finalized, livenessInterval, exited,
             finalizeRuns, timerClears, sigints>>
ghostVars == <<finalizedBy, triggerCode>>
raceVars == <<probe, overallFired, resolvedUrl, lastResp>>
\* the state of the `package` command
fsVars == <<tree, wsExists, ws, indexHtml, workPkgMakers>>
htmlVars == <<htmlIn, passes>>
packVars == <<rev, argv, makeMakers, helpOut, fsVars, trace, cmds, htmlVars,
             tree0, copies, runs, installed, shell>>
\* the state of the `start` command, pc and exited apart
startVars == <<envUrl, devUrl, reachable, now, child, childCode, shellEnvUrl,
               isShuttingDown, finalized, livenessInterval, finalizeRuns,
               timerClears, sigints, handlerRan, sigSeen, firstSignal, spawns,
               ghostVars, raceVars>>
vars == <<pc, envUrl, devUrl, reachable, now, child, childCode, probe, overallFired,
          resolvedUrl, lastResp, shellEnvUrl, isShuttingDown, finalized,
          livenessInterval, exited, finalizeRuns, timerClears, sigints,
          finalizedBy, triggerCode, handlerRan, sigSeen, firstSignal, spawns,
          rev, argv, makeMakers, helpOut, wsExists, ws, indexHtml,
          workPkgMakers, trace, cmds, htmlIn, passes, tree, tree0, copies,
          runs, installed, shell>>

(* ------------------------------ helpers -------------------------------- *)
Range(seq) == {seq[i] : i \in 1..Len(seq)}

\* Array.from(new Set(seq)): first occurrences, in order
RECURSIVE Dedup(_)
Dedup(seq) ==
    IF seq = <<>> THEN <<>>
    ELSE LET front == Dedup(SubSeq(seq, 1, Len(seq) - 1))
             last == seq[Len(seq)]
         IN IF last \in Range(front) THEN front ELSE Append(front, last)

DEV_URL(env) == IF env # "" THEN env ELSE Url19006

\* a || b on strings
Or(a, b) == IF a # "" THEN a ELSE b

candidates(env, dev) == Dedup(<<Or(env, dev), Url8081, Url19006>>)

Other(c) == IF c = "expo" THEN "electron" ELSE "expo"

\* the supervisor's mutable state as one value, so that the closures of
\* start() can be written as functions from state to state
Sup == [isShuttingDown |-> isShuttingDown, finalized |-> finalized,
        livenessInterval |-> livenessInterval, exited |-> exited,
        finalizeRuns |-> finalizeRuns, timerClears |-> timerClears,
        sigints |-> sigints]

\* p.pid is set iff the spawn succeeded
hasPid(c) == child[c] \in {"running", "zombie", "pending", "exited"}

\* alive(p): process.kill(pid, 0) succeeds while the pid exists, which
\* includes a dead child that libuv has not reaped yet (pids are taken not
\* to be reused within one run)
alive(c) == hasPid(c) /\ child[c] \in {"running", "zombie"}

bothGone == ~alive("expo") /\ ~alive("electron")

\* process.exit(typeof code === 'number' ? code : 0)
exitStatus(code) == IF Len(code) = 1 THEN code[1] ELSE 0

\* variant: no `finalized` guard, and the exit only recorded for later
\* (process.exitCode) instead of leaving the process at once
finalizeExit_unguarded(s, code) ==
    [s EXCEPT !.finalized = TRUE,
              !.timerClears = IF s.livenessInterval THEN @ + 1 ELSE @,
              !.livenessInterval = FALSE,
              !.finalizeRuns = @ + 1]

finalizeExit(s, code) ==
    IF s.finalized THEN s
    ELSE [s EXCEPT !.finalized = TRUE,
                   !.timerClears = IF s.livenessInterval THEN @ + 1 ELSE @,
                   !.livenessInterval = FALSE,
                   !.finalizeRuns = @ + 1,
                   !.exited = <<exitStatus(code)>>]

\* p.kill('SIGINT') reaches the child while its pid exists (err === 0);
\* after libuv reaped it the call fails with ESRCH or finds no handle
sendSigint(s, c) ==
    IF ~hasPid(c) THEN s
    ELSE IF child[c] \in {"running", "zombie"}
         THEN [s EXCEPT !.sigints[c] = @ + 1]
         ELSE s

\* variant: finalizes at once, whether the children are gone or not
initiateShutdown_atOnce(s, code) ==
    IF s.isShuttingDown THEN s
    ELSE LET s1 == [s EXCEPT !.isShuttingDown = TRUE]
             s2 == sendSigint(s1, "expo")
             s3 == sendSigint(s2, "electron")
         IN finalizeExit(s3, code)

initiateShutdown(s, code) ==
    IF s.isShuttingDown THEN s
    ELSE LET s1 == [s EXCEPT !.isShuttingDown = TRUE]
             s2 == sendSigint(s1, "expo")
             s3 == sendSigint(s2, "electron")
         IN IF bothGone THEN finalizeExit(s3, code) ELSE s3

\* variant: finalizes with a fixed 0 instead of the event's code
exitHandler_zero(s, c, code) ==
    LET s1 == IF ~s.isShuttingDown THEN sendSigint(s, Other(c)) ELSE s
    IN IF bothGone THEN finalizeExit(s1, <<0>>) ELSE s1

\* variant: re-arms the shutdown flag while the other child is still there
exitHandler_rearm(s, c, code) ==
    LET s1 == IF ~s.isShuttingDown THEN sendSigint(s, Other(c)) ELSE s
    IN IF bothGone THEN finalizeExit(s1, code)
       ELSE [s1 EXCEPT !.isShuttingDown = FALSE]

\* expoProc.on('exit') and electronProc.on('exit'), c the child that exited
exitHandler(s, c, code) ==
    LET s1 == IF ~s.isShuttingDown THEN sendSigint(s, Other(c)) ELSE s
    IN IF bothGone THEN finalizeExit(s1, code) ELSE s1

\* variant: condition inverted
livenessTick_inverted(s) == IF ~bothGone THEN finalizeExit(s, <<0>>) ELSE s

\* the setInterval callback
livenessTick(s) == IF bothGone THEN finalizeExit(s, <<0>>) ELSE s

\* variant: no listener for SIGHUP
signalHandler_noHup(s, sig) ==
    IF sig = "SIGHUP" THEN s ELSE initiateShutdown(s, <<0>>)

\* process.on(sig, () => initiateShutdown(0)) for the three signals
signalHandler(s, sig) == initiateShutdown(s, <<0>>)

\* write a supervisor state back, with the event that produced it
Commit(s, by, code) ==
    /\ isShuttingDown' = s.isShuttingDown
    /\ finalized' = s.finalized
    /\ livenessInterval' = s.livenessInterval
    /\ exited' = s.exited
    /\ finalizeRuns' = s.finalizeRuns
    /\ timerClears' = s.timerClears
    /\ sigints' = s.sigints
    /\ pc' = IF s.exited # <<>> THEN "exited" ELSE pc
    /\ IF s.finalizeRuns > finalizeRuns
       THEN finalizedBy' = by /\ triggerCode' = code
       ELSE UNCHANGED ghostVars

(* --------------------------- event ordering ---------------------------- *)
ProcessUp == pc \notin {"init", "exited", "killed"}
\* process.nextTick callbacks ('error' of a failed spawn) run first
NoTickPending == \A c \in Children : child[c] # "spawnerr"
\* 'exit' callbacks of one reaping pass run back to back
NoExitPending == \A c \in Children : child[c] # "pending"
\* the continuation of `await Promise.race` runs as a microtask
NoContinuation == pc \notin {"raceWon", "raceLost"}
JsIdle == ProcessUp /\ NoTickPending /\ NoExitPending /\ NoContinuation

(* ------------------------- text, as JavaScript ------------------------- *)
\* a string is the sequence of its characters
UpperCase ==
    <<"A", "B", "C", "D", "E", "F", "G", "H", "I", "J", "K", "L", "M",
      "N", "O", "P", "Q", "R", "S", "T", "U", "V", "W", "X", "Y", "Z">>
LowerCase ==
    <<"a", "b", "c", "d", "e", "f", "g", "h", "i", "j", "k", "l", "m",
      "n", "o", "p", "q", "r", "s", "t", "u", "v", "w", "x", "y", "z">>
Digits == {"0", "1", "2", "3", "4", "5", "6", "7", "8", "9"}
\* \s of a regular expression, and what String.prototype.trim removes
WhiteSpace == {" ", "\n", "\t"}
\* \w of a regular expression
WordChars == Range(UpperCase) \cup Range(LowerCase) \cup Digits \cup {"_"}

Lower(c) ==
    IF c \in Range(UpperCase)
    THEN LowerCase[CHOOSE i \in 1..Len(UpperCase) : UpperCase[i] = c]
    ELSE c

toLowerCase(s) == [i \in 1..Len(s) |-> Lower(s[i])]

\* s has p at position i (1-based)
matchAt(s, p, i) ==
    /\ i >= 1
    /\ i + Len(p) - 1 <= Len(s)
    /\ SubSeq(s, i, i + Len(p) - 1) = p

startsWith(s, p) == matchAt(s, p, 1)

includes(s, p) == \E i \in 1..(Len(s) - Len(p) + 1) : matchAt(s, p, i)

\* s.indexOf(p), 1-based; 0 where JavaScript gives -1
indexOf(s, p) ==
    IF includes(s, p)
    THEN CHOOSE i \in 1..(Len(s) - Len(p) + 1) :
           /\ matchAt(s, p, i)
           /\ \A j \in 1..(i - 1) : ~matchAt(s, p, j)
    ELSE 0

\* s.split(c) for a one-character separator c
RECURSIVE split(_, _)
split(s, c) ==
    IF c \notin Range(s) THEN <<s>>
    ELSE LET i == indexOf(s, <<c>>)
         IN <<SubSeq(s, 1, i - 1)>> \o split(SubSeq(s, i + 1, Len(s)), c)

RECURSIVE trim(_)
trim(s) ==
    IF s = <<>> THEN s
    ELSE IF s[1] \in WhiteSpace THEN trim(Tail(s))
    ELSE IF s[Len(s)] \in WhiteSpace THEN trim(SubSeq(s, 1, Len(s) - 1))
    ELSE s

(* ------------------------ package: command line ------------------------ *)
DashDash == <<"-", "-">>
MakeFlag == <<"-", "-", "m", "a", "k", "e">>
MakeEqFlag == <<"-", "-", "m", "a", "k", "e", "=">>

\* val.split(',').map((s) => s.trim()).filter(Boolean)
makerTokens(val) ==
    LET parts == split(val, ",")
        trimmed == [i \in 1..Len(parts) |-> trim(parts[i])]
        Boolean(t) == t # <<>>
    IN SelectSeq(trimmed, Boolean)

\* the loop of parseMakeArg from argument i on
RECURSIVE parseMakeFrom(_, _)
parseMakeFrom(args, i) ==
    IF i > Len(args) THEN <<>>
    ELSE LET a == args[i]
         IN IF startsWith(a, MakeEqFlag)
            THEN <<makerTokens(split(a, "=")[2])>>
            ELSE IF /\ a = MakeFlag
                    /\ i < Len(args)
                    /\ args[i + 1] # <<>>
                    /\ ~startsWith(args[i + 1], DashDash)
                 THEN <<makerTokens(args[i + 1])>>
                 ELSE parseMakeFrom(args, i + 1)

\* parseMakeArg(): <<>> is null, <<tokens>> an array of tokens
parseMakeArg(args) == parseMakeFrom(args, 1)

MakerSquirrel ==
    <<"@", "e", "l", "e", "c", "t", "r", "o", "n", "-", "f", "o", "r", "g",
      "e", "/", "m", "a", "k", "e", "r", "-", "s", "q", "u", "i", "r", "r",
      "e", "l">>
MakerZip ==
    <<"@", "e", "l", "e", "c", "t", "r", "o", "n", "-", "f", "o", "r", "g",
      "e", "/", "m", "a", "k", "e", "r", "-", "z", "i", "p">>
MakerDeb ==
    <<"@", "e", "l", "e", "c", "t", "r", "o", "n", "-", "f", "o", "r", "g",
      "e", "/", "m", "a", "k", "e", "r", "-", "d", "e", "b">>
MakerRpm ==
    <<"@", "e", "l", "e", "c", "t", "r", "o", "n", "-", "f", "o", "r", "g",
      "e", "/", "m", "a", "k", "e", "r", "-", "r", "p", "m">>
\* defaultForgeConfig.makers, by name
DefaultMakers == <<MakerSquirrel, MakerZip, MakerDeb, MakerRpm>>

\* variant: the tokens are compared as typed, without lower-casing them
matchingMakers_asTyped(makers, tokens) ==
    LET wanted(n) == \E k \in 1..Len(tokens) :
                        includes(toLowerCase(n), tokens[k])
    IN SelectSeq(makers, wanted)

\* the filter over the makers: some token is a substring of the lowered name
matchingMakers(makers, tokens) ==
    LET lowered == [i \in 1..Len(tokens) |-> toLowerCase(tokens[i])]
        wanted(n) == \E k \in 1..Len(lowered) :
                        includes(toLowerCase(n), lowered[k])
    IN SelectSeq(makers, wanted)

\* variant: --make given without a usable token keeps every maker
forgeMakers_keepAll(mm) ==
    IF mm # <<>> /\ Len(mm[1]) > 0
    THEN LET kept == matchingMakers(DefaultMakers, mm[1])
         IN [makers |-> kept, skipMake |-> Len(kept) = 0]
    ELSE [makers |-> DefaultMakers, skipMake |-> FALSE]

\* the makers pack writes and its skipMake flag, from its argument
forgeMakers(mm) ==
    IF mm # <<>> /\ Len(mm[1]) > 0
    THEN LET kept == matchingMakers(DefaultMakers, mm[1])
         IN [makers |-> kept, skipMake |-> Len(kept) = 0]
    ELSE [makers |-> <<>>, skipMake |-> TRUE]

(* -------------------- package: post-export transform -------------------- *)
HeadTag == <<"<", "h", "e", "a", "d", ">">>
BaseOpen == <<"<", "b", "a", "s", "e">>
HrefEq == <<"h", "r", "e", "f", "=">>
BaseTag ==
    <<"\n", " ", " ", "<", "b", "a", "s", "e", " ", "h", "r", "e", "f", "=",
      "\"", ".", "/", "\"", ">">>
Src == <<"s", "r", "c">>
Href == <<"h", "r", "e", "f">>

\* /\<base[^>]*href=/.test(html)
hasBaseHref(html) ==
    \E i \in 1..Len(html) :
        /\ matchAt(html, BaseOpen, i)
        /\ \E j \in (i + Len(BaseOpen))..Len(html) :
             /\ matchAt(html, HrefEq, j)
             /\ \A k \in (i + Len(BaseOpen))..(j - 1) : html[k] # ">"

\* variant: the base tag is inserted whether or not one is there
injectBase_always(html) ==
    LET headIndex == indexOf(html, HeadTag)
        insertAt == headIndex + Len(HeadTag)
    IN IF headIndex # 0
       THEN SubSeq(html, 1, insertAt - 1) \o BaseTag
                \o SubSeq(html, insertAt, Len(html))
       ELSE html

\* "Inject a base href if missing": after the first <head>, if there is one
injectBase(html) ==
    IF ~hasBaseHref(html)
    THEN LET headIndex == indexOf(html, HeadTag)
             insertAt == headIndex + Len(HeadTag)
         IN IF headIndex # 0
            THEN SubSeq(html, 1, insertAt - 1) \o BaseTag
                     \o SubSeq(html, insertAt, Len(html))
            ELSE html
    ELSE html

\* \s* from position i: the first position that holds no white space
RECURSIVE skipSpace(_, _)
skipSpace(h, i) ==
    IF i <= Len(h) /\ h[i] \in WhiteSpace THEN skipSpace(h, i + 1) ELSE i

\* /(\b(?:src|href)\s*=\s*['"])\//i at position i: the position of the
\* closing "/" of the match, 0 if there is no match at i
attrMatch(h, i) ==
    LET boundary == h[i] \in WordChars /\ (i = 1 \/ h[i - 1] \notin WordChars)
        k == IF i + 2 <= Len(h) /\ toLowerCase(SubSeq(h, i, i + 2)) = Src
             THEN 3
             ELSE IF i + 3 <= Len(h)
                     /\ toLowerCase(SubSeq(h, i, i + 3)) = Href
                  THEN 4 ELSE 0
        eq == skipSpace(h, i + k)
        quote == skipSpace(h, eq + 1)
    IN IF /\ boundary
          /\ k # 0
          /\ eq <= Len(h)
          /\ h[eq] = "="
          /\ quote + 1 <= Len(h)
          /\ h[quote] \in {"'", "\""}
          /\ h[quote + 1] = "/"
       THEN quote + 1
       ELSE 0

\* html.replace(<the pattern>/gi, '$1./') from position i on: matches are
\* taken left to right and do not overlap
RECURSIVE relativizeFrom(_, _)
relativizeFrom(h, i) ==
    IF i > Len(h) THEN <<>>
    ELSE LET slash == attrMatch(h, i)
         IN IF slash # 0
            THEN SubSeq(h, i, slash - 1) \o <<".", "/">>
                     \o relativizeFrom(h, slash + 1)
            ELSE <<h[i]>> \o relativizeFrom(h, i + 1)

relativize(html) == relativizeFrom(html, 1)

\* the text written back to index.html
transformHtml(html) == relativize(injectBase(html))

(* ------------------------------ file trees ----------------------------- *)
\* path.dirname on a path written as a sequence of names (path.join is
\* Append)
dirname(p) == SubSeq(p, 1, Len(p) - 1)

\* variant: nothing is ever found to exist
existsSync_never(fs, p) == FALSE

\* fs.existsSync(p): below a file or a missing directory nothing exists
existsSync(fs, p) == p \in DOMAIN fs /\ fs[p] # ""

isDirectory(fs, p) == fs[p] = "dir"

\* fs.readdirSync(p), as a set of names
readdirSync(fs, p) ==
    {q[Len(q)] : q \in {r \in DOMAIN fs : Len(r) = Len(p) + 1
                                          /\ dirname(r) = p /\ fs[r] # ""}}

\* what a file-system call returns: the tree it leaves, and whether it threw
Result(fs, threw) == [fs |-> fs, threw |-> threw]

\* fs.mkdirSync(p, { recursive: true }): p and its missing ancestors become
\* directories; ENOTDIR/EEXIST when p or an ancestor is a file
RECURSIVE mkdirSync(_, _)
mkdirSync(fs, p) ==
    IF p \notin DOMAIN fs THEN Result(fs, FALSE)
    ELSE IF fs[p] = "dir" THEN Result(fs, FALSE)
    ELSE IF fs[p] # "" THEN Result(fs, TRUE)
    ELSE LET up == mkdirSync(fs, dirname(p))
         IN IF up.threw THEN up
            ELSE Result([up.fs EXCEPT ![p] = "dir"], FALSE)

\* fs.copyFileSync(s, d): ENOENT/ENOTDIR unless d's directory exists, EACCES
\* if s may not be read
copyFileSync(fs, s, d) ==
    IF (dirname(d) \in DOMAIN fs /\ fs[dirname(d)] # "dir") \/ fs[s] = "locked"
    THEN Result(fs, TRUE)
    ELSE Result([fs EXCEPT ![d] = fs[s]], FALSE)

RECURSIVE copyRecursiveSkipExisting(_, _, _, _)
RECURSIVE copyEntries(_, _, _, _, _)

\* the loop over readdirSync(src): entries still to visit are in todo
copyEntries(fs, src, dest, todo, skipFiles) ==
    IF todo = {} THEN Result(fs, FALSE)
    ELSE LET entry == CHOOSE n \in todo : TRUE
             s == Append(src, entry)
             d == Append(dest, entry)
             done ==
                 IF entry \in skipFiles THEN Result(fs, FALSE)
                 ELSE IF existsSync(fs, d)
                 THEN IF isDirectory(fs, d) /\ isDirectory(fs, s)
                      THEN copyRecursiveSkipExisting(fs, s, d, skipFiles)
                      ELSE Result(fs, FALSE)
                 ELSE IF isDirectory(fs, s)
                      THEN copyRecursiveSkipExisting(fs, s, d, skipFiles)
                      ELSE copyFileSync(fs, s, d)
         IN IF done.threw THEN done
            ELSE copyEntries(done.fs, src, dest, todo \ {entry}, skipFiles)

copyRecursiveSkipExisting(fs, src, dest, skipFiles) ==
    IF ~(src \in DOMAIN fs /\ fs[src] # "")
    THEN Result(fs, TRUE)                            \* statSync(src): ENOENT
    ELSE IF isDirectory(fs, src)
    THEN LET made == IF existsSync(fs, dest) THEN Result(fs, FALSE)
                     ELSE mkdirSync(fs, dest)
         IN IF made.threw THEN made
            ELSE copyEntries(made.fs, src, dest, readdirSync(fs, src),
                             skipFiles)
    ELSE IF existsSync(fs, dest) THEN Result(fs, FALSE)
    ELSE copyFileSync(fs, src, dest)

\* variant: the later revision passes no skip list either
SkipFiles_none(rv) == {}

\* the skipFiles argument of the call in prebuild(): the later revision
\* keeps the template preload out, the earlier one has no such parameter
SkipFiles(rv) == IF rv = "part_001" THEN {"preload.js"} ELSE {}

(* --------------------------- package: inputs --------------------------- *)
Revisions == {"cli.js", "part_001"}

\* content of a file: "" absent, "tpl" from the package's template, "dev"
\* written by the developer, "gen" generated by the autolinker, "old" left by
\* an earlier package run, "new" written by this run; "locked" is a file
\* the process may not read
Contents == {"", "tpl", "dev", "gen", "old", "new", "locked"}
\* the paths prebuild() and pack() name: the project's electron/ folder
\* (target) with main/ (tgtMain), .gitignore (gi) and the autolinker's
\* files, and the main/ template of the package (srcMain)
Paths ==
    [target |-> <<"electron">>,
     tgtMain |-> <<"electron", "main">>,
     mainJs |-> <<"electron", "main", "main.js">>,
     preloadJs |-> <<"electron", "main", "preload.js">>,
     gi |-> <<"electron", ".gitignore">>,
     resourcesPath |-> <<"electron", "electron-resources.json">>,
     srcMain |-> <<"main">>,
     srcMainJs |-> <<"main", "main.js">>,
     srcPreloadJs |-> <<"main", "preload.js">>]
\* entries {from, to} of electron/electron-resources.json: from is relative
\* to the project root, to (with its directory dpar) to the workspace
Resources ==
    << [from |-> <<"node_modules", "a">>, to |-> "mod-a/native",
        dpar |-> "mod-a"],
       [from |-> <<"node_modules", "b">>, to |-> "mod-b/native",
        dpar |-> "mod-b"] >>
\* entries of a list whose destinations are files the export and the copy
\* of electron/main put into the workspace
Colliding ==
    << [from |-> <<"node_modules", "a">>, to |-> "app/bundle.js",
        dpar |-> "app"],
       [from |-> <<"node_modules", "b">>, to |-> "main/main.js",
        dpar |-> "main"],
       [from |-> <<"node_modules", "b">>, to |-> "main/preload.js",
        dpar |-> "main"] >>
\* contents of electron/electron-resources.json
Manifests == {Resources, Colliding, Resources \o Colliding}
ProjPaths ==
    {Paths[k] : k \in DOMAIN Paths}
        \cup {Resources[i].from : i \in DOMAIN Resources}
WsPaths ==
    {"main/main.js", "main/preload.js", "package.json", "app/bundle.js",
     "out/make"}
        \cup {Resources[i].to : i \in DOMAIN Resources}
        \cup {Resources[i].dpar : i \in DOMAIN Resources}
        \cup {Colliding[i].dpar : i \in DOMAIN Colliding}
NoFiles(paths) == [f \in paths |-> ""]

Package == <<"p", "a", "c", "k", "a", "g", "e">>
\* command lines after `expo-electron` the package command is run with
Argvs ==
    { <<Package>>,
      \* --make zip
      <<Package, MakeFlag, <<"z", "i", "p">>>>,
      \* --make ZIP
      <<Package, MakeFlag, <<"Z", "I", "P">>>>,
      \* "--make=zip, deb,"
      <<Package,
        <<"-", "-", "m", "a", "k", "e", "=", "z", "i", "p", ",", " ", "d", "e", "b", ",">>>>,
      \* --make msi
      <<Package, MakeFlag, <<"m", "s", "i">>>>,
      \* --make Maker-
      <<Package, MakeFlag, <<"M", "a", "k", "e", "r", "-">>>>,
      \* --make --verbose
      <<Package, MakeFlag, <<"-", "-", "v", "e", "r", "b", "o", "s", "e">>>>,
      \* --make
      <<Package, MakeFlag>>,
      \* --make=
      <<Package, <<"-", "-", "m", "a", "k", "e", "=">>>>,
      \* --make --verbose --make zip
      <<Package, MakeFlag, <<"-", "-", "v", "e", "r", "b", "o", "s", "e">>,
        MakeFlag, <<"z", "i", "p">>>> }

Export == <<"e", "x", "p", "o", "r", "t">>
\* outputs of `expo --help`: "start export", "start build:web",
\* "start export:web"
HelpTexts ==
    { <<"s", "t", "a", "r", "t", " ", "e", "x", "p", "o", "r", "t">>,
      <<"s", "t", "a", "r", "t", " ", "b", "u", "i", "l", "d", ":", "w", "e",
        "b">>,
      <<"s", "t", "a", "r", "t", " ", "e", "x", "p", "o", "r", "t", ":", "w",
        "e", "b">> }

DocPlain ==
    <<"<", "h", "e", "a", "d", ">", "<", "s", "c", "r", "i", "p", "t", " ",
      "s", "r", "c", "=", "\"", "/", "_", "e", "x", "p", "o", "/", "x", ".",
      "j", "s", "\"", ">">>
\* index.html texts the export writes: DocPlain, one with a base tag and an
\* upper-case attribute, one without <head>
ExportedDocs ==
    { DocPlain,
      <<"<", "h", "e", "a", "d", ">", "<", "b", "a", "s", "e", " ", "h", "r",
        "e", "f", "=", "\"", "/", "\"", ">", "<", "l", "i", "n", "k", " ",
        "H", "R", "E", "F", " ", "=", " ", "'", "/", "x", ".", "c", "s", "s",
        "'", ">">>,
      <<"<", "p", ">">> }

\* no directory tree is looked at
NoTree ==
    /\ tree = <<>>
    /\ tree0 = <<>>
    /\ copies = 0
    /\ runs = 1

\* no Electron main process
NoShell == [env |-> "", webUrl |-> "", hasProdIndex |-> FALSE, loaded |-> <<>>]

\* the package command's state while another command runs
NoPack ==
    /\ rev = "cli.js"
    /\ argv = <<>>
    /\ makeMakers = <<>>
    /\ helpOut = <<>>
    /\ wsExists = FALSE
    /\ ws = NoFiles(WsPaths)
    /\ indexHtml = <<>>
    /\ workPkgMakers = <<>>
    /\ trace = <<>>
    /\ cmds = <<>>
    /\ htmlIn = <<>>
    /\ passes = 0
    /\ NoTree

(* -------------------------------- Init --------------------------------- *)
\* what start() and its closures begin with
StartFresh ==
    /\ now = 0
    /\ child = [c \in Children |-> "none"]
    /\ childCode = [c \in Children |-> <<>>]
    /\ probe = [u \in Urls |-> "none"]
    /\ overallFired = FALSE
    /\ resolvedUrl = ""
    /\ lastResp = <<>>
    /\ shellEnvUrl = ""
    /\ isShuttingDown = FALSE
    /\ finalized = FALSE
    /\ livenessInterval = FALSE
    /\ exited = <<>>
    /\ finalizeRuns = 0
    /\ timerClears = 0
    /\ sigints = [c \in Children |-> 0]
    /\ finalizedBy = "none"
    /\ triggerCode = <<>>
    /\ handlerRan = [c \in Children |-> FALSE]
    /\ sigSeen = 0
    /\ firstSignal = ""
    /\ spawns = [c \in Children |-> 0]

Init ==
    /\ pc = "init"
    /\ envUrl \in EnvUrls
    /\ devUrl = DEV_URL(envUrl)
    /\ reachable \in SUBSET Range(candidates(envUrl, DEV_URL(envUrl)))
    /\ StartFresh
    /\ shell = NoShell
    /\ NoPack
    /\ \E absent \in SUBSET Children : installed = Tools \ absent

(* ------------------------- start(): readiness -------------------------- *)
\* start() up to `await Promise.race`: spawnExpoWeb, one waitForUrl per
\* candidate (each issues its first http.get at once), the overall timer
Start ==
    /\ pc = "init"
    /\ argv = <<>>
    /\ \E spawnOk \in BOOLEAN :
         IF "expo" \notin installed
         THEN /\ pc' = "exited"
              /\ exited' = <<2>>
              /\ UNCHANGED <<child, probe, spawns>>
         ELSE /\ spawns' = [spawns EXCEPT !["expo"] = @ + 1]
              /\ child' = [child EXCEPT
                             !["expo"] = IF spawnOk THEN "running" ELSE "spawnerr"]
              /\ probe' = [u \in Urls |->
                             IF u \in Range(candidates(envUrl, devUrl))
                             THEN "inflight" ELSE "none"]
              /\ pc' = "probing"
              /\ UNCHANGED exited
    /\ UNCHANGED <<envUrl, devUrl, reachable, now, childCode, overallFired,
                   resolvedUrl, lastResp, shellEnvUrl, isShuttingDown,
                   finalized, livenessInterval, finalizeRuns, timerClears,
                   sigints, finalizedBy, triggerCode, handlerRan, sigSeen,
                   firstSignal>>
    /\ UNCHANGED packVars

\* child.on('error'): the spawn failure is logged, nothing else
ErrorEvent(c) ==
    /\ ProcessUp
    /\ child[c] = "spawnerr"
    /\ child' = [child EXCEPT ![c] = "failed"]
    /\ UNCHANGED <<pc, envUrl, devUrl, reachable, now, childCode, shellEnvUrl,
                   handlerRan, sigSeen, firstSignal, spawns>>
    /\ UNCHANGED <<supVars, ghostVars, raceVars>>
    /\ UNCHANGED packVars

\* variant: only a 200 counts as ready, any other status is retried
onResponse_okOnly(status) == IF status = 200 THEN "resolved" ELSE "retry"

\* the response callback of http.get: res.resume(); resolve(url)
onResponse(status) == "resolved"

\* the 'error' callback of the request: reject once the deadline has passed,
\* else setTimeout(poll, POLL_INTERVAL)
onError(elapsed, timeoutMs) ==
    IF elapsed > timeoutMs THEN "rejected" ELSE "retry"

\* a probe that is to be retried issues its next http.get when the
\* POLL_INTERVAL timer fires: it is in flight again
afterAttempt(outcome) == IF outcome = "retry" THEN "inflight" ELSE outcome

\* variant: every response is adopted, the last one overwriting the winner
ProbeResponse_lastWins(u) ==
    /\ JsIdle
    /\ probe[u] = "inflight"
    /\ u \in reachable
    /\ \E status \in Statuses :
         /\ probe' = [probe EXCEPT ![u] = afterAttempt(onResponse(status))]
         /\ lastResp' = IF pc = "probing" THEN <<u, status>> ELSE lastResp
         /\ resolvedUrl' = u
         /\ pc' = IF pc = "probing" THEN "raceWon" ELSE pc
    /\ UNCHANGED <<envUrl, devUrl, reachable, now, child, childCode,
                   overallFired, shellEnvUrl, handlerRan, sigSeen, firstSignal,
                   spawns>>
    /\ UNCHANGED <<supVars, ghostVars>>
    /\ UNCHANGED packVars

\* a server answers candidate u with some status; Promise.race adopts the
\* first promise that settles
ProbeResponse(u) ==
    /\ JsIdle
    /\ probe[u] = "inflight"
    /\ u \in reachable
    /\ \E status \in Statuses :
         /\ probe' = [probe EXCEPT ![u] = afterAttempt(onResponse(status))]
         /\ lastResp' = IF pc = "probing" THEN <<u, status>> ELSE lastResp
         /\ IF pc = "probing" /\ probe'[u] = "resolved"
            THEN /\ pc' = "raceWon"
                 /\ resolvedUrl' = u
            ELSE UNCHANGED <<pc, resolvedUrl>>
    /\ UNCHANGED <<envUrl, devUrl, reachable, now, child, childCode,
                   overallFired, shellEnvUrl, handlerRan, sigSeen, firstSignal,
                   spawns>>
    /\ UNCHANGED <<supVars, ghostVars>>
    /\ UNCHANGED packVars

\* the request to u fails: connection refused, or the 2 s per-attempt
\* timeout aborts it (req.abort() surfaces as 'error')
ProbeError(u) ==
    /\ JsIdle
    /\ probe[u] = "inflight"
    /\ probe' = [probe EXCEPT ![u] = afterAttempt(onError(now, TIMEOUT_MS))]
    /\ pc' = IF pc = "probing" /\ probe'[u] = "rejected" THEN "raceLost" ELSE pc
    /\ UNCHANGED <<envUrl, devUrl, reachable, now, child, childCode,
                   overallFired, resolvedUrl, lastResp, shellEnvUrl,
                   handlerRan, sigSeen, firstSignal, spawns>>
    /\ UNCHANGED <<supVars, ghostVars>>
    /\ UNCHANGED packVars

\* the overall timer: reject(new Error('timeout waiting for any candidate'))
OverallTimeout ==
    /\ JsIdle
    /\ ~overallFired
    /\ now >= TIMEOUT_MS
    /\ overallFired' = TRUE
    /\ pc' = IF pc = "probing" THEN "raceLost" ELSE pc
    /\ UNCHANGED <<envUrl, devUrl, reachable, now, child, childCode, probe,
                   resolvedUrl, lastResp, shellEnvUrl, handlerRan, sigSeen,
                   firstSignal, spawns>>
    /\ UNCHANGED <<supVars, ghostVars>>
    /\ UNCHANGED packVars

\* variant: the catch block logs and falls through to the shell launch
RaceFailed_fallthrough ==
    /\ pc = "raceLost"
    /\ NoTickPending
    /\ pc' = "raceWon"
    /\ UNCHANGED <<envUrl, devUrl, reachable, now, child, childCode,
                   shellEnvUrl, handlerRan, sigSeen, firstSignal, spawns>>
    /\ UNCHANGED <<supVars, ghostVars, raceVars>>
    /\ UNCHANGED packVars

\* variant: the failure is reported but the process leaves with status 0
RaceFailed_zero ==
    /\ pc = "raceLost"
    /\ NoTickPending
    /\ pc' = "exited"
    /\ exited' = <<0>>
    /\ UNCHANGED <<envUrl, devUrl, reachable, now, child, childCode,
                   shellEnvUrl, isShuttingDown, finalized, livenessInterval,
                   finalizeRuns, timerClears, sigints, handlerRan, sigSeen,
                   firstSignal, spawns>>
    /\ UNCHANGED <<ghostVars, raceVars>>
    /\ UNCHANGED packVars

\* catch (e) { console.error(...); process.exit(1); }
RaceFailed ==
    /\ pc = "raceLost"
    /\ NoTickPending
    /\ pc' = "exited"
    /\ exited' = <<1>>
    /\ UNCHANGED <<envUrl, devUrl, reachable, now, child, childCode,
                   shellEnvUrl, isShuttingDown, finalized, livenessInterval,
                   finalizeRuns, timerClears, sigints, handlerRan, sigSeen,
                   firstSignal, spawns>>
    /\ UNCHANGED <<ghostVars, raceVars>>
    /\ UNCHANGED packVars

\* wall-clock time passes (followed while a deadline is still to come)
Tick ==
    /\ ProcessUp
    /\ now <= TIMEOUT_MS
    /\ ~overallFired \/ \E u \in Urls : probe[u] = "inflight"
    /\ now' = now + TickMs
    /\ UNCHANGED <<pc, envUrl, devUrl, reachable, child, childCode,
                   shellEnvUrl, handlerRan, sigSeen, firstSignal, spawns>>
    /\ UNCHANGED <<supVars, ghostVars, raceVars>>
    /\ UNCHANGED packVars

(* ------------------------ start(): supervision ------------------------- *)
\* start() after the await: adopt the winner, spawnElectron, install the
\* exit listeners, the liveness interval and the signal listeners
SpawnShell ==
    /\ pc = "raceWon"
    /\ NoTickPending
    /\ envUrl' = resolvedUrl
    /\ \E spawnOk \in BOOLEAN :
         IF "electron" \notin installed
         THEN /\ pc' = "exited"
              /\ exited' = <<2>>
              /\ UNCHANGED <<child, spawns, shellEnvUrl, livenessInterval>>
         ELSE /\ spawns' = [spawns EXCEPT !["electron"] = @ + 1]
              /\ child' = [child EXCEPT
                             !["electron"] = IF spawnOk THEN "running"
                                             ELSE "spawnerr"]
              /\ shellEnvUrl' = Or(resolvedUrl, Or(envUrl', devUrl))
              /\ livenessInterval' = TRUE
              /\ pc' = "supervising"
              /\ UNCHANGED exited
    /\ isShuttingDown' = FALSE
    /\ finalized' = FALSE
    /\ UNCHANGED <<devUrl, reachable, now, childCode, finalizeRuns,
                   timerClears, sigints, handlerRan, sigSeen, firstSignal>>
    /\ UNCHANGED <<ghostVars, raceVars>>
    /\ UNCHANGED packVars

\* a running child terminates, with an exit code or by a signal
ChildDies(c) ==
    /\ ProcessUp
    /\ child[c] = "running"
    /\ \E code \in ChildCodes :
         childCode' = [childCode EXCEPT ![c] = code]
    /\ child' = [child EXCEPT ![c] = "zombie"]
    /\ UNCHANGED <<pc, envUrl, devUrl, reachable, now, shellEnvUrl,
                   handlerRan, sigSeen, firstSignal, spawns>>
    /\ UNCHANGED <<supVars, ghostVars, raceVars>>
    /\ UNCHANGED packVars

\* libuv's child watcher: every terminated child is waited for, then the
\* 'exit' events of this pass are emitted one after the other
Reap ==
    /\ JsIdle
    /\ \E c \in Children : child[c] = "zombie"
    /\ child' = [c \in Children |->
                   IF child[c] = "zombie" THEN "pending" ELSE child[c]]
    /\ UNCHANGED <<pc, envUrl, devUrl, reachable, now, childCode,
                   shellEnvUrl, handlerRan, sigSeen, firstSignal, spawns>>
    /\ UNCHANGED <<supVars, ghostVars, raceVars>>
    /\ UNCHANGED packVars

\* 'exit' is emitted for c: its listener runs if start() has installed it,
\* otherwise the event is lost
ExitEvent(c) ==
    /\ ProcessUp
    /\ NoTickPending
    /\ child[c] = "pending"
    /\ child' = [child EXCEPT ![c] = "exited"]
    /\ IF pc = "supervising"
       THEN /\ Commit(exitHandler(Sup, c, childCode[c]), c, childCode[c])
            /\ handlerRan' = [handlerRan EXCEPT ![c] = TRUE]
       ELSE UNCHANGED <<pc, handlerRan, supVars, ghostVars>>
    /\ UNCHANGED <<envUrl, devUrl, reachable, now, childCode, shellEnvUrl,
                   sigSeen, firstSignal, spawns>>
    /\ UNCHANGED raceVars
    /\ UNCHANGED packVars

\* the 250 ms interval fires
LivenessTick ==
    /\ pc = "supervising"
    /\ JsIdle
    /\ livenessInterval
    /\ Commit(livenessTick(Sup), "tick", <<0>>)
    /\ UNCHANGED <<envUrl, devUrl, reachable, now, child, childCode,
                   shellEnvUrl, handlerRan, sigSeen, firstSignal, spawns>>
    /\ UNCHANGED raceVars
    /\ UNCHANGED packVars

\* SIGINT, SIGTERM or SIGHUP arrives once the listeners are installed
Signal(sig) ==
    /\ pc = "supervising"
    /\ JsIdle
    /\ sigSeen < MaxSignals
    /\ sigSeen' = sigSeen + 1
    /\ firstSignal' = IF sigSeen = 0 THEN sig ELSE firstSignal
    /\ Commit(signalHandler(Sup, sig), "signal", <<0>>)
    /\ UNCHANGED <<envUrl, devUrl, reachable, now, child, childCode,
                   shellEnvUrl, handlerRan, spawns>>
    /\ UNCHANGED raceVars
    /\ UNCHANGED packVars

\* a signal arrives during the readiness wait, before any listener is
\* installed: the default disposition terminates the CLI process
SignalDefault(sig) ==
    /\ pc = "probing"
    /\ sigSeen < MaxSignals
    /\ sigSeen' = sigSeen + 1
    /\ firstSignal' = sig
    /\ pc' = "killed"
    /\ UNCHANGED <<envUrl, devUrl, reachable, now, child, childCode,
                   shellEnvUrl, handlerRan, spawns>>
    /\ UNCHANGED <<supVars, ghostVars, raceVars>>
    /\ UNCHANGED packVars

(* ------------------------------ behaviour ------------------------------ *)
Next ==
    \/ Start
    \/ \E c \in Children : ErrorEvent(c)
    \/ \E u \in Urls : ProbeResponse(u)
    \/ \E u \in Urls : ProbeError(u)
    \/ OverallTimeout
    \/ RaceFailed
    \/ Tick
    \/ SpawnShell
    \/ \E c \in Children : ChildDies(c)
    \/ Reap
    \/ \E c \in Children : ExitEvent(c)
    \/ LivenessTick
    \/ \E sig \in Signals : Signal(sig)
    \/ \E sig \in Signals : SignalDefault(sig)

Spec == Init /\ [][Next]_vars

\* the event loop runs what is queued: the interval keeps firing, queued
\* 'exit' and 'error' events are emitted, reaping follows a child's death
SpecLive ==
    /\ Spec
    /\ WF_vars(LivenessTick)
    /\ WF_vars(\E c \in Children : ExitEvent(c))
    /\ WF_vars(\E c \in Children : ErrorEvent(c))
    /\ WF_vars(Reap)

\* the interval timer alone is assumed to keep firing
SpecTick == Spec /\ WF_vars(LivenessTick)

(* ------------------------------- package ------------------------------- *)
\* the stages of one package run, in the order pack() is written
Stages == <<"prebuild", "link", "reset", "export", "transform", "assemble",
            "package", "make">>

\* command lines pack() runs
HelpCmd == <<"expo", "--help">>
ExportCmd == <<"expo", "export", ".", "--output-dir", "electron/.build/app",
               "-p", "web">>
PackageCmd == <<"electron-forge", "package">>
MakeCmd == <<"electron-forge", "make">>

\* how a child started by runCommand ends: its spawn fails ('error'), or it
\* exits with a code (<<>> = null, ended by a signal)
RunOutcomes == {[error |-> TRUE, code |-> <<>>], [error |-> FALSE, code |-> <<0>>],
                [error |-> FALSE, code |-> <<1>>],
                [error |-> FALSE, code |-> <<>>]}

\* the event a child of runCommand ends with, as logged in the trace
ChildEvent(out) ==
    IF out.error THEN "error"
    ELSE IF out.code = <<0>> THEN "exit 0"
    ELSE IF out.code = <<>> THEN "killed"
    ELSE "exit 1"

\* variant: any exit of the child resolves, only a spawn error rejects
runCommand_anyExit(out) == ~out.error

\* the promise of runCommand resolves iff the child exits with code 0
runCommand(out) == ~out.error /\ out.code = <<0>>

\* the package with its template
Template ==
    [p \in ProjPaths |->
       IF p = Paths.srcMain THEN "dir"
       ELSE IF p \in {Paths.srcMainJs, Paths.srcPreloadJs} THEN "tpl"
       ELSE ""]

\* projects the package command is run in: a fresh one, one whose electron/
\* folder the developer has edited
InitialProjects ==
    { Template,
      [p \in ProjPaths |->
         IF p \in {Paths.target, Paths.tgtMain} THEN "dir"
         ELSE IF p \in {Paths.mainJs, Paths.preloadJs, Paths.gi} THEN "dev"
         ELSE Template[p]] }

InitPack ==
    /\ pc = "init"
    /\ envUrl = ""
    /\ devUrl = DEV_URL(envUrl)
    /\ reachable = {}
    /\ StartFresh
    /\ shell = NoShell
    /\ rev \in Revisions
    /\ argv \in Argvs
    /\ \E absent \in SUBSET {"expo", "electron-forge"},
          host \in SUBSET {"rpmbuild"} :
         \* only the earlier revision looks for rpmbuild: for the later one
         \* a host without it stands for both
         /\ rev = "part_001" => host = {}
         /\ installed = (Tools \ absent) \cup host
    /\ makeMakers = <<>>
    /\ helpOut = <<>>
    /\ \E proj \in InitialProjects, mods \in {{2}, DOMAIN Resources} :
         \* the modules whose native files are (still) installed; only the
         \* later revision looks at them
         /\ rev = "cli.js" => mods = DOMAIN Resources
         /\ tree = [p \in ProjPaths |->
                   IF \E i \in mods : p = Resources[i].from THEN "gen"
                   ELSE proj[p]]
    /\ tree0 = tree
    /\ copies = 0
    /\ runs = 1
    /\ \E stale \in BOOLEAN :
         /\ wsExists = stale
         /\ ws = [f \in WsPaths |-> IF stale THEN "old" ELSE ""]
         /\ indexHtml = IF stale THEN <<DocPlain>> ELSE <<>>
         /\ workPkgMakers = IF stale THEN <<DefaultMakers>> ELSE <<>>
    /\ trace = <<>>
    /\ cmds = <<>>
    /\ htmlIn = <<>>
    /\ passes = 0

\* process.exit(code)
Exit(code) == pc' = "exited" /\ exited' = <<code>>

Log(events) == trace' = trace \o events

\* what no step of pack() touches
packFrame == <<startVars, rev, argv, tree0, copies, runs, installed, shell>>

\* main: cmd === 'package'; the later revision parses --make first
PackMain ==
    /\ pc = "init"
    /\ argv # <<>>
    /\ argv[1] = Package
    /\ makeMakers' = IF rev = "part_001" THEN parseMakeArg(argv) ELSE <<>>
    /\ pc' = "prebuild"
    /\ UNCHANGED <<exited, helpOut, fsVars, trace, cmds, htmlVars, packFrame>>

\* fs.writeFileSync(p, text): ENOENT/ENOTDIR unless p's directory exists
writeFileSync(fs, p, content) ==
    IF fs[dirname(p)] # "dir" THEN Result(fs, TRUE)
    ELSE Result([fs EXCEPT ![p] = content], FALSE)

\* variant: the template's main.js replaces the one in electron/main
prebuild_overwrite(fs, rv, mkOk, giOk) ==
    Result([fs EXCEPT ![Paths.target] = "dir", ![Paths.tgtMain] = "dir",
                      ![Paths.mainJs] = "tpl"], FALSE)

\* prebuild(): electron/ is created if missing (mkOk: the file system lets
\* it), the template main/ is copied in without overwriting, .gitignore is
\* written if missing, and a failure of that write (giOk) is only reported
prebuild(fs, rv, mkOk, giOk) ==
    LET made == IF existsSync(fs, Paths.target) THEN Result(fs, FALSE)
                ELSE IF mkOk THEN mkdirSync(fs, Paths.target)
                ELSE Result(fs, TRUE)
        copied == IF existsSync(made.fs, Paths.srcMain)
                  THEN copyRecursiveSkipExisting(made.fs, Paths.srcMain,
                                                 Paths.tgtMain, SkipFiles(rv))
                  ELSE made
        wrote == IF existsSync(copied.fs, Paths.gi) \/ ~giOk
                 THEN copied
                 ELSE writeFileSync(copied.fs, Paths.gi, "new")
    IN IF made.threw THEN made
       ELSE IF copied.threw THEN copied
       ELSE Result(wrote.fs, FALSE)

\* variant: electron/ is emptied before the template is copied in
PackPrebuild_fresh ==
    /\ pc = "prebuild"
    /\ tree' = prebuild([p \in ProjPaths |->
                           IF p[1] = "electron" /\ p # Paths.target
                           THEN "" ELSE tree[p]], rev, TRUE, TRUE).fs
    /\ Log(<< <<"prebuild", "start">>, <<"prebuild", "ok">> >>)
    /\ pc' = IF rev = "part_001" THEN "link" ELSE "binaries"
    /\ UNCHANGED <<exited, makeMakers, helpOut, wsExists, ws, indexHtml,
                   workPkgMakers, cmds, htmlVars, packFrame>>

\* try { prebuild() ... } catch { process.exit(3) }
PackPrebuild ==
    /\ pc = "prebuild"
    /\ \E mkOk \in BOOLEAN, giOk \in BOOLEAN :
         LET done == prebuild(tree, rev, mkOk, giOk)
         IN /\ tree' = done.fs
            /\ IF done.threw
               THEN /\ Log(<< <<"prebuild", "start">>,
                              <<"prebuild", "fail">> >>)
                    /\ Exit(3)
               ELSE /\ Log(<< <<"prebuild", "start">>, <<"prebuild", "ok">> >>)
                    /\ pc' = IF rev = "part_001" THEN "link" ELSE "binaries"
                    /\ UNCHANGED exited
    /\ UNCHANGED <<makeMakers, helpOut, wsExists, ws, indexHtml,
                   workPkgMakers, cmds, htmlVars, packFrame>>

\* variant: a failure of the autolinker ends the run like one of prebuild
PackLink_fatal ==
    /\ pc = "link"
    /\ Log(<< <<"link", "start">>, <<"link", "fail">> >>)
    /\ Exit(3)
    /\ UNCHANGED <<makeMakers, helpOut, fsVars, cmds, htmlVars, packFrame>>

\* the inner try of the later revision: autolink.run(PROJECT_ROOT, electron/)
\* writes the generated preload and the resource list; if it throws, a
\* warning is printed and pack() goes on
PackLink ==
    /\ pc = "link"
    /\ \E ok \in BOOLEAN :
         IF /\ ok
            /\ isDirectory(tree, Paths.target)
            /\ tree[Paths.tgtMain] \in {"", "dir"}
         THEN /\ tree' = [tree EXCEPT ![Paths.tgtMain] = "dir",
                                      ![Paths.preloadJs] = "gen",
                                      ![Paths.resourcesPath] = "gen"]
              /\ Log(<< <<"link", "start">>, <<"link", "ok">> >>)
         ELSE /\ UNCHANGED tree
              /\ Log(<< <<"link", "start">>, <<"link", "fail">> >>)
    /\ pc' = "binaries"
    /\ UNCHANGED <<exited, makeMakers, helpOut, wsExists, ws, indexHtml,
                   workPkgMakers, cmds, htmlVars, packFrame>>

\* variant: only the expo binary is looked for
PackBinaries_expoOnly ==
    /\ pc = "binaries"
    /\ IF "expo" \notin installed
       THEN /\ Log(<< <<"binaries", "fail">> >>)
            /\ Exit(2)
       ELSE /\ pc' = "reset"
            /\ UNCHANGED <<exited, trace>>
    /\ UNCHANGED <<makeMakers, helpOut, fsVars, cmds, htmlVars, packFrame>>

\* variant: the old workspace is taken away before the binaries are looked for
PackBinaries_cleanFirst ==
    /\ pc = "binaries"
    /\ wsExists' = FALSE
    /\ ws' = NoFiles(WsPaths)
    /\ indexHtml' = <<>>
    /\ workPkgMakers' = <<>>
    /\ IF "expo" \notin installed \/ "electron-forge" \notin installed
       THEN /\ Log(<< <<"binaries", "fail">> >>)
            /\ Exit(2)
       ELSE /\ pc' = "reset"
            /\ UNCHANGED <<exited, trace>>
    /\ UNCHANGED <<makeMakers, helpOut, tree, cmds, htmlVars, packFrame>>

\* "Ensure binaries": expo, then electron-forge
PackBinaries ==
    /\ pc = "binaries"
    /\ IF "expo" \notin installed \/ "electron-forge" \notin installed
       THEN /\ Log(<< <<"binaries", "fail">> >>)
            /\ Exit(2)
       ELSE /\ pc' = "reset"
            /\ UNCHANGED <<exited, trace>>
    /\ UNCHANGED <<makeMakers, helpOut, fsVars, cmds, htmlVars, packFrame>>

\* how the process ends when the promise of pack() is rejected and nobody
\* handles it: status 1, or 0 after a warning on the older Node versions that
\* pack() still provides for (fs.rmdirSync in place of fs.rmSync)
UnhandledRejectionCodes == {0, 1}

\* variant: when the removal throws, the old workspace is moved aside and
\* the run goes on with a new one
PackReset_fallback ==
    /\ pc = "reset"
    /\ \E rmOk \in BOOLEAN :
         /\ ws' = NoFiles(WsPaths)
         /\ indexHtml' = <<>>
         /\ workPkgMakers' = <<>>
         /\ wsExists' = TRUE
         /\ Log(<< <<"reset", "start">> >>
                  \o (IF wsExists THEN << <<"reset", "removing">> >> ELSE <<>>)
                  \o (IF wsExists /\ ~rmOk THEN << <<"reset", "fail">> >>
                      ELSE <<>>)
                  \o << <<"reset", "ok">> >>)
         /\ pc' = "help"
         /\ UNCHANGED exited
    /\ UNCHANGED <<makeMakers, helpOut, tree, cmds, htmlVars, packFrame>>

\* the workspace reset: remove electron/.build if it exists (a failure is
\* fatal), then create it empty
PackReset ==
    /\ pc = "reset"
    /\ \E rmOk \in BOOLEAN, mkOk \in BOOLEAN :
         LET begun == << <<"reset", "start">> >>
                        \o (IF wsExists THEN << <<"reset", "removing">> >>
                            ELSE <<>>)
         IN IF wsExists /\ ~rmOk
            THEN \* the removal threw, possibly after removing part of the tree
                 /\ \E part \in BOOLEAN :
                      ws' = IF part THEN [ws EXCEPT !["out/make"] = ""] ELSE ws
                 /\ Log(begun \o << <<"reset", "fail">> >>)
                 /\ Exit(1)
                 /\ UNCHANGED <<wsExists, indexHtml, workPkgMakers>>
            ELSE /\ ws' = NoFiles(WsPaths)
                 /\ indexHtml' = <<>>
                 /\ workPkgMakers' = <<>>
                 /\ IF mkOk
                    THEN /\ wsExists' = TRUE
                         /\ Log(begun \o << <<"reset", "ok">> >>)
                         /\ pc' = "help"
                         /\ UNCHANGED exited
                    ELSE \* fs.mkdirSync threw outside any try block
                         /\ wsExists' = FALSE
                         /\ Log(begun \o << <<"reset", "fail">> >>)
                         /\ \E code \in UnhandledRejectionCodes : Exit(code)
    /\ UNCHANGED <<makeMakers, helpOut, tree, cmds, htmlVars, packFrame>>

\* variant: without the capability the older build command is tried
PackHelp_fallback ==
    /\ pc = "help"
    /\ \E err \in BOOLEAN, text \in HelpTexts, mkOk \in BOOLEAN :
         /\ cmds' = cmds \o <<HelpCmd>>
                      \o (IF ~err /\ mkOk
                          THEN IF includes(text, Export)
                               THEN <<ExportCmd>>
                               ELSE << <<"expo", "build:web">> >>
                          ELSE <<>>)
         /\ helpOut' = IF err THEN << <<>> >> ELSE <<text>>
         /\ IF err
            THEN /\ Log(<< <<"help", "fail">> >>)
                 /\ Exit(2)
            ELSE IF mkOk
                 THEN /\ Log(<< <<"export", "start">> >>)
                      /\ pc' = "exportRun"
                      /\ UNCHANGED exited
                 ELSE /\ Log(<< <<"export", "start">>, <<"export", "fail">> >>)
                      /\ Exit(4)
    /\ UNCHANGED <<makeMakers, fsVars, htmlVars, packFrame>>

\* spawnSync(expo --help); if its output contains "export", the export
\* command is started in its one form, else the run ends with status 4
PackHelp ==
    /\ pc = "help"
    /\ \E err \in BOOLEAN, text \in HelpTexts, mkOk \in BOOLEAN :
         /\ cmds' = cmds \o <<HelpCmd>>
                      \o (IF ~err /\ includes(text, Export) /\ mkOk
                          THEN <<ExportCmd>> ELSE <<>>)
         /\ helpOut' = IF err THEN << <<>> >> ELSE <<text>>
         /\ IF err
            THEN /\ Log(<< <<"help", "fail">> >>)
                 /\ Exit(2)
            ELSE IF includes(text, Export)
                 THEN IF mkOk
                      THEN /\ Log(<< <<"export", "start">> >>)
                           /\ pc' = "exportRun"
                           /\ UNCHANGED exited
                      ELSE \* mkdirSync(webOut) threw inside the export try
                           /\ Log(<< <<"export", "start">>,
                                     <<"export", "fail">> >>)
                           /\ Exit(4)
                 ELSE /\ Log(<< <<"capability", "fail">> >>)
                      /\ Exit(4)
    /\ UNCHANGED <<makeMakers, fsVars, htmlVars, packFrame>>

\* the export child ends: await runCommand(EXPO_CMD, args)
\* variant: an export that failed is started once more
PackExportExit_retry ==
    /\ pc = "exportRun"
    /\ \E out \in RunOutcomes :
         IF runCommand(out)
         THEN /\ indexHtml' = <<>> /\ htmlIn' = <<>>
              /\ Log(<< <<"export", ChildEvent(out)>>, <<"export", "ok">> >>)
              /\ pc' = "transform"
              /\ UNCHANGED <<exited, cmds>>
         ELSE IF Len(SelectSeq(cmds, LAMBDA c : c = ExportCmd)) = 1
         THEN /\ Log(<< <<"export", ChildEvent(out)>> >>)
              /\ cmds' = Append(cmds, ExportCmd)
              /\ UNCHANGED <<pc, exited, indexHtml, htmlIn>>
         ELSE /\ Log(<< <<"export", ChildEvent(out)>>, <<"export", "fail">> >>)
              /\ Exit(4)
              /\ UNCHANGED <<indexHtml, htmlIn, cmds>>
    /\ UNCHANGED <<makeMakers, helpOut, tree, wsExists, ws, workPkgMakers,
                   passes, packFrame>>

PackExportExit ==
    /\ pc = "exportRun"
    /\ \E out \in RunOutcomes, wrote \in BOOLEAN :
         /\ ws' = [ws EXCEPT !["app/bundle.js"] = IF wrote THEN "new" ELSE @]
         /\ IF runCommand(out)
            THEN /\ \E doc \in {<<>>} \cup {<<d>> : d \in ExportedDocs} :
                      indexHtml' = doc /\ htmlIn' = doc
                 /\ Log(<< <<"export", ChildEvent(out)>>, <<"export", "ok">> >>)
                 /\ pc' = "transform"
                 /\ UNCHANGED exited
            ELSE /\ Log(<< <<"export", ChildEvent(out)>>,
                           <<"export", "fail">> >>)
                 /\ Exit(4)
                 /\ UNCHANGED <<indexHtml, htmlIn>>
    /\ UNCHANGED <<makeMakers, helpOut, tree, wsExists, workPkgMakers, cmds,
                   passes, packFrame>>

\* the post-export transform of index.html; whatever it throws is caught
\* and reported with console.warn
PackTransform ==
    /\ pc = "transform"
    /\ \E ioOk \in BOOLEAN :
         IF indexHtml # <<>> /\ ~ioOk
         THEN /\ Log(<< <<"transform", "start">>, <<"transform", "fail">> >>)
              /\ UNCHANGED <<indexHtml, passes>>
         ELSE /\ indexHtml' = IF indexHtml # <<>>
                              THEN <<transformHtml(indexHtml[1])>> ELSE indexHtml
              /\ passes' = IF indexHtml # <<>> THEN passes + 1 ELSE passes
              /\ Log(<< <<"transform", "start">>, <<"transform", "ok">> >>)
    /\ pc' = "assemble"
    /\ UNCHANGED <<exited, makeMakers, helpOut, tree, wsExists, ws,
                   workPkgMakers, cmds, htmlIn, packFrame>>

Rpm == <<"r", "p", "m">>
\* the earlier revision: without rpmbuild in PATH the rpm makers are taken
\* out of the template's makers
withoutRpm(makers, rpmbuild) ==
    LET isRpm(n) == includes(toLowerCase(n), Rpm)
        notRpm(n) == ~isRpm(n)
        hasRpm == \E i \in 1..Len(makers) : isRpm(makers[i])
    IN IF hasRpm /\ ~rpmbuild THEN SelectSeq(makers, notRpm) ELSE makers

\* commandExistsInPath(cmd): cmd is an executable of a PATH directory
commandExistsInPath(cmd) == cmd \in installed

\* makers the template package.json of the earlier revision may configure
TemplateMakers == {<<>>, DefaultMakers}

\* copyRecursiveSkipExisting(electron/main, electron/.build/main): the
\* files of electron/main that the workspace has not yet
copyMain(work, fs) ==
    LET from == [f \in {"main/main.js", "main/preload.js"} |->
                   IF f = "main/main.js" THEN fs[Paths.mainJs]
                   ELSE fs[Paths.preloadJs]]
    IN [f \in WsPaths |->
          IF f \in DOMAIN from /\ work[f] = "" /\ from[f] # "dir"
          THEN from[f] ELSE work[f]]

\* variant: the destination's directory is made before the source is
\* looked for
copyResource_mkdirFirst(work, fs, r, copyOk) ==
    IF ~existsSync(fs, r.from)
    THEN [ws |-> [work EXCEPT ![r.dpar] = "dir"],
          log |-> << <<"resources", "missing">> >>]
    ELSE [ws |-> [work EXCEPT ![r.dpar] = "dir", ![r.to] = fs[r.from]],
          log |-> << <<"resources", "copied">> >>]

\* variant: the source replaces what the destination holds
copyResource_overwrite(work, fs, r, copyOk) ==
    IF ~existsSync(fs, r.from)
    THEN [ws |-> work, log |-> << <<"resources", "missing">> >>]
    ELSE IF ~copyOk
    THEN [ws |-> work, log |-> << <<"resources", "warn">> >>]
    ELSE [ws |-> [work EXCEPT ![r.dpar] = "dir", ![r.to] = fs[r.from]],
          log |-> << <<"resources", "copied">> >>]

\* the body of the loop over the entries: a missing source is reported and
\* skipped; otherwise the destination's directory is made and the source is
\* copied unless the destination exists; what this throws (copyOk: nothing)
\* is reported too
copyResource(work, fs, r, copyOk) ==
    IF ~existsSync(fs, r.from)
    THEN [ws |-> work, log |-> << <<"resources", "missing">> >>]
    ELSE IF ~copyOk
    THEN [ws |-> work, log |-> << <<"resources", "warn">> >>]
    ELSE [ws |-> [work EXCEPT ![r.dpar] = "dir",
                              ![r.to] = IF @ = "" THEN fs[r.from] ELSE @],
          log |-> << <<"resources", "copied">> >>]

RECURSIVE copyResources(_, _, _, _, _)
\* for (const r of resources), from entry i on
copyResources(work, fs, resources, i, copyOk) ==
    IF i > Len(resources) THEN [ws |-> work, log |-> <<>>]
    ELSE LET one == copyResource(work, fs, resources[i], copyOk[i])
             rest == copyResources(one.ws, fs, resources, i + 1, copyOk)
         IN [ws |-> rest.ws, log |-> one.log \o rest.log]

\* the autolink resources of the later revision: without the file nothing
\* is copied; a file that does not parse (parseOk) is reported; resources
\* is what the file holds
applyResources(work, fs, resources, parseOk, copyOk) ==
    IF ~existsSync(fs, Paths.resourcesPath)
    THEN [ws |-> work, log |-> << <<"resources", "none">> >>]
    ELSE IF ~parseOk
    THEN [ws |-> work, log |-> << <<"resources", "warn">> >>]
    ELSE copyResources(work, fs, resources, 1, copyOk)

\* the workspace assembly up to the first command it starts: main files,
\* autolink resources, package.json with the Forge makers; anything thrown
\* outside the resources' try blocks ends the run with 5
PackAssemble ==
    /\ pc = "assemble"
    /\ \E ioOk \in BOOLEAN,
          tmpl \in IF rev = "cli.js" THEN TemplateMakers ELSE {<<>>},
          parseOk \in IF rev = "part_001" THEN BOOLEAN ELSE {TRUE},
          copyOk \in IF rev = "part_001" THEN [DOMAIN Resources -> BOOLEAN]
                     ELSE {[i \in DOMAIN Resources |-> TRUE]} :
         LET makers == IF rev = "part_001" THEN forgeMakers(makeMakers).makers
                       ELSE withoutRpm(tmpl, commandExistsInPath("rpmbuild"))
             first == IF rev = "part_001" THEN "package" ELSE "make"
             main == copyMain(ws, tree)
             res == IF rev = "part_001"
                    THEN applyResources(main, tree, Resources, parseOk, copyOk)
                    ELSE [ws |-> main, log |-> <<>>]
         IN IF ioOk
            THEN /\ ws' = [res.ws EXCEPT !["package.json"] = "new"]
                 /\ workPkgMakers' = <<makers>>
                 /\ Log(<< <<"assemble", "start">> >> \o res.log
                        \o << <<"assemble", "ok">>, <<first, "start">> >>)
                 /\ cmds' = Append(cmds, IF rev = "part_001" THEN PackageCmd
                                         ELSE MakeCmd)
                 /\ pc' = IF rev = "part_001" THEN "packageRun" ELSE "makeRun"
                 /\ UNCHANGED exited
            ELSE \* a copy or the write of package.json threw
                 /\ \E copied \in BOOLEAN :
                      /\ ws' = IF copied THEN res.ws ELSE ws
                      /\ Log(<< <<"assemble", "start">> >>
                             \o (IF copied THEN res.log ELSE <<>>)
                             \o << <<"assemble", "fail">> >>)
                 /\ Exit(5)
                 /\ UNCHANGED <<workPkgMakers, cmds>>
    /\ UNCHANGED <<makeMakers, helpOut, tree, wsExists, indexHtml, htmlVars,
                   packFrame>>

\* the `electron-forge package` child ends; make follows only with makers
PackPackageExit ==
    /\ pc = "packageRun"
    /\ \E out \in RunOutcomes :
         IF runCommand(out)
         THEN IF ~forgeMakers(makeMakers).skipMake /\ Len(workPkgMakers[1]) > 0
              THEN /\ Log(<< <<"package", ChildEvent(out)>>,
                             <<"package", "ok">>, <<"make", "start">> >>)
                   /\ cmds' = Append(cmds, MakeCmd)
                   /\ pc' = "makeRun"
                   /\ UNCHANGED exited
              ELSE /\ Log(<< <<"package", ChildEvent(out)>>,
                             <<"package", "ok">> >>)
                   /\ pc' = "done"
                   /\ exited' = <<0>>
                   /\ UNCHANGED cmds
         ELSE /\ Log(<< <<"package", ChildEvent(out)>>, <<"package", "fail">> >>)
              /\ Exit(5)
              /\ UNCHANGED cmds
    /\ UNCHANGED <<makeMakers, helpOut, fsVars, htmlVars, packFrame>>

\* the `electron-forge make` child ends
PackMakeExit ==
    /\ pc = "makeRun"
    /\ \E out \in RunOutcomes :
         IF runCommand(out)
         THEN /\ ws' = [ws EXCEPT !["out/make"] = "new"]
              /\ Log(<< <<"make", ChildEvent(out)>>, <<"make", "ok">> >>)
              /\ pc' = "done"
              /\ exited' = <<0>>
         ELSE /\ Log(<< <<"make", ChildEvent(out)>>, <<"make", "fail">> >>)
              /\ Exit(5)
              /\ UNCHANGED ws
    /\ UNCHANGED <<makeMakers, helpOut, tree, wsExists, indexHtml,
                   workPkgMakers, cmds, htmlVars, packFrame>>

NextPack ==
    \/ PackMain
    \/ PackPrebuild
    \/ PackLink
    \/ PackBinaries
    \/ PackReset
    \/ PackHelp
    \/ PackExportExit
    \/ PackTransform
    \/ PackAssemble
    \/ PackPackageExit
    \/ PackMakeExit

\* one run of the package command
SpecPack == InitPack /\ [][NextPack]_vars

(* ------------------------- the command dispatch ------------------------ *)
\* the CLI is started with the start command (no argument) or with package
InitCli == Init \/ InitPack

\* cmd === 'start' runs start(), cmd === 'package' runs pack()
NextCli ==
    \/ argv = <<>> /\ Next
    \/ argv # <<>> /\ NextPack

\* one run of the CLI, as start or as package
SpecCli == InitCli /\ [][NextCli]_vars

(* ------------------ the commands, one after another ------------------- *)
MaxRuns == 2

Prebuild == <<"p", "r", "e", "b", "u", "i", "l", "d">>

\* projects the CLI is run in: those of InitialProjects, one with a file
\* named electron, one with a file named electron/main, one run from a
\* package whose template is missing
Scaffolds ==
    InitialProjects \cup
    { [Template EXCEPT ![Paths.target] = "dev"],
      [Template EXCEPT ![Paths.target] = "dir", ![Paths.tgtMain] = "dev"],
      [p \in ProjPaths |-> ""] }

InitScaffold ==
    /\ pc = "init"
    /\ envUrl = ""
    /\ devUrl = DEV_URL(envUrl)
    /\ reachable = {}
    /\ StartFresh
    /\ shell = NoShell
    /\ rev \in Revisions
    /\ argv \in {<<Prebuild>>, <<Package>>}
    /\ installed = Tools
    /\ makeMakers = <<>>
    /\ helpOut = <<>>
    /\ tree \in Scaffolds
    /\ tree0 = tree
    /\ copies = 0
    /\ runs = 1
    /\ wsExists = FALSE
    /\ ws = NoFiles(WsPaths)
    /\ indexHtml = <<>>
    /\ workPkgMakers = <<>>
    /\ trace = <<>>
    /\ cmds = <<>>
    /\ htmlIn = <<>>
    /\ passes = 0

\* main: cmd === 'prebuild': prebuild(); process.exit(0). What prebuild()
\* throws nobody catches, and node ends with status 1
PrebuildCmd ==
    /\ pc = "init"
    /\ argv # <<>>
    /\ argv[1] = Prebuild
    /\ \E mkOk \in BOOLEAN, giOk \in BOOLEAN :
         LET done == prebuild(tree, rev, mkOk, giOk)
         IN /\ tree' = done.fs
            /\ IF done.threw
               THEN /\ Log(<< <<"prebuild", "start">>,
                              <<"prebuild", "fail">> >>)
                    /\ Exit(1)
               ELSE /\ Log(<< <<"prebuild", "start">>, <<"prebuild", "ok">> >>)
                    /\ Exit(0)
    /\ UNCHANGED <<makeMakers, helpOut, wsExists, ws, indexHtml,
                   workPkgMakers, cmds, htmlVars, packFrame>>

\* the process has ended; the developer edits main.js or .gitignore or
\* nothing and runs the CLI again: what the last run left on disk is now old
Rerun ==
    /\ pc \in {"exited", "done"}
    /\ runs < MaxRuns
    /\ \E cmd \in {Prebuild, Package}, edit \in {Paths.mainJs, Paths.gi, <<>>} :
         /\ tree' = IF edit # <<>> /\ tree[edit] \notin {"", "dir"}
                    THEN [tree EXCEPT ![edit] = "dev"] ELSE tree
         /\ tree0' = tree'
         /\ argv' = <<cmd>>
    /\ ws' = [f \in WsPaths |-> IF ws[f] = "" THEN "" ELSE "old"]
    /\ runs' = runs + 1
    /\ pc' = "init"
    /\ exited' = <<>>
    /\ makeMakers' = <<>>
    /\ helpOut' = <<>>
    /\ trace' = <<>>
    /\ cmds' = <<>>
    /\ htmlIn' = <<>>
    /\ passes' = 0
    /\ UNCHANGED <<startVars, rev, wsExists, indexHtml, workPkgMakers, copies,
                   installed, shell>>

NextScaffold ==
    \/ NextPack
    \/ PrebuildCmd
    \/ Rerun

\* prebuild and package runs in one project, in any order
SpecScaffold == InitScaffold /\ [][NextScaffold]_vars

(* ----------------- post-export transform, applied again ---------------- *)
MaxFragments == 3
MaxPasses == 2

\* pieces of index.html texts: <head>, an open base tag, a tag end, quoted
\* root-absolute attributes (lower case; upper case with blanks and single
\* quote; one after a letter), a slash, a dot, an upper-case base tag
HtmlFragments ==
    { <<"<", "h", "e", "a", "d", ">">>,
      <<"<", "b", "a", "s", "e">>,
      <<">">>,
      <<" ", "h", "r", "e", "f", "=", "\"", "/">>,
      <<" ", "S", "R", "C", " ", "=", " ", "'", "/">>,
      <<"x", "s", "r", "c", "=", "\"", "/">>,
      <<"/">>,
      <<".">>,
      <<"<", "B", "A", "S", "E", " ", "H", "R", "E", "F", "=", "\"", "/",
        "\"", ">">> }

RECURSIVE concat(_)
concat(parts) ==
    IF parts = <<>> THEN <<>> ELSE Head(parts) \o concat(Tail(parts))

\* the texts of at most MaxFragments pieces
HtmlDocs ==
    UNION { {concat(parts) : parts \in [1..n -> HtmlFragments]} :
            n \in 0..MaxFragments }

\* an index.html as the export left it in the workspace
InitHtml ==
    /\ pc = "transform"
    /\ envUrl = ""
    /\ devUrl = DEV_URL(envUrl)
    /\ reachable = {}
    /\ StartFresh
    /\ shell = NoShell
    /\ rev \in Revisions
    /\ argv = <<Package>>
    /\ installed = Tools
    /\ makeMakers = <<>>
    /\ helpOut = <<>>
    /\ wsExists = TRUE
    /\ ws = NoFiles(WsPaths)
    /\ \E doc \in HtmlDocs :
         /\ htmlIn = <<doc>>
         /\ indexHtml = <<doc>>
    /\ workPkgMakers = <<>>
    /\ trace = <<>>
    /\ cmds = <<>>
    /\ passes = 0
    /\ NoTree

\* the transform block run over the file it wrote before
HtmlPass ==
    /\ pc = "transform"
    /\ passes < MaxPasses
    /\ indexHtml' = <<transformHtml(indexHtml[1])>>
    /\ passes' = passes + 1
    /\ UNCHANGED <<pc, exited, makeMakers, helpOut, tree, wsExists, ws,
                   workPkgMakers, trace, cmds, htmlIn, packFrame>>

NextHtml == HtmlPass

\* the transform applied repeatedly to one text
SpecHtml == InitHtml /\ [][NextHtml]_vars

(* --------------------- copy without overwriting ------------------------ *)
MaxCopies == 2

\* two trees side by side, each two levels deep under its root
SrcRoot == <<"src">>
DestRoot == <<"dest">>
BelowRoot ==
    LET names == {"main.js", "preload.js"}
    IN {<<>>} \cup {<<x>> : x \in names}
              \cup {<<x, y>> : x \in names, y \in names}
CopyPaths == {r \o q : r \in {SrcRoot, DestRoot}, q \in BelowRoot}

\* the shapes a tree can have: only a directory has anything below it
TreeShapes ==
    {t \in [BelowRoot -> {"", "dir", "file"}] :
        \A q \in BelowRoot : (q # <<>> /\ t[q] # "") => t[dirname(q)] = "dir"}

\* a source tree of template files next to a destination tree of the
\* developer's files
InitCopy ==
    /\ pc = "copy"
    /\ envUrl = ""
    /\ devUrl = DEV_URL(envUrl)
    /\ reachable = {}
    /\ StartFresh
    /\ shell = NoShell
    /\ rev \in Revisions
    /\ argv = <<>>
    /\ installed = Tools
    /\ makeMakers = <<>>
    /\ helpOut = <<>>
    /\ wsExists = FALSE
    /\ ws = NoFiles(WsPaths)
    /\ indexHtml = <<>>
    /\ workPkgMakers = <<>>
    /\ trace = <<>>
    /\ cmds = <<>>
    /\ htmlIn = <<>>
    /\ passes = 0
    /\ \E st \in TreeShapes, dt \in TreeShapes, noRead \in BelowRoot :
         tree = [p \in CopyPaths |->
                   IF Head(p) = "src"
                   THEN IF st[Tail(p)] = "file"
                        THEN IF Tail(p) = noRead /\ noRead # <<>>
                             THEN "locked" ELSE "tpl"
                        ELSE st[Tail(p)]
                   ELSE IF dt[Tail(p)] = "file" THEN "dev" ELSE dt[Tail(p)]]
    /\ tree0 = tree
    /\ copies = 0
    /\ runs = 1

\* one call copyRecursiveSkipExisting(src, dest); what it throws is the
\* caller's business
CopyOnce ==
    /\ pc = "copy"
    /\ copies < MaxCopies
    /\ tree' = copyRecursiveSkipExisting(tree, SrcRoot, DestRoot,
                                         SkipFiles(rev)).fs
    /\ copies' = copies + 1
    /\ UNCHANGED <<pc, exited, startVars, rev, argv, makeMakers, helpOut,
                   wsExists, ws, indexHtml, workPkgMakers, trace, cmds,
                   htmlVars, tree0, runs, installed, shell>>

NextCopy == CopyOnce

\* the copy applied repeatedly to one source and one destination
SpecCopy == InitCopy /\ [][NextCopy]_vars

(* ----------------------- the resource list, applied -------------------- *)
\* the assembly of the later revision where the resource list is read:
\* prebuild and, if it succeeded, the autolinker have run in a project of
\* InitialProjects, the export has written its bundle or not, and the files
\* of electron/main are in the workspace
InitResources ==
    /\ pc = "resources"
    /\ envUrl = ""
    /\ devUrl = DEV_URL(envUrl)
    /\ reachable = {}
    /\ StartFresh
    /\ shell = NoShell
    /\ rev = "part_001"
    /\ argv = <<Package>>
    /\ installed = Tools
    /\ makeMakers = <<>>
    /\ helpOut = <<>>
    /\ \E proj \in InitialProjects, mods \in SUBSET DOMAIN Resources,
          linked \in BOOLEAN, wrote \in BOOLEAN :
         LET built == prebuild(proj, rev, TRUE, TRUE).fs
         IN /\ tree = [p \in ProjPaths |->
                         IF \E i \in DOMAIN Resources : p = Resources[i].from
                         THEN IF \E i \in mods : p = Resources[i].from
                              THEN "gen" ELSE ""
                         ELSE IF linked /\ p \in {Paths.preloadJs,
                                                  Paths.resourcesPath}
                         THEN "gen"
                         ELSE built[p]]
            /\ ws = copyMain([NoFiles(WsPaths) EXCEPT
                                !["app/bundle.js"] = IF wrote THEN "new" ELSE ""],
                             tree)
    /\ tree0 = tree
    /\ copies = 0
    /\ runs = 1
    /\ wsExists = TRUE
    /\ indexHtml = <<>>
    /\ workPkgMakers = <<>>
    /\ trace = <<>>
    /\ cmds = <<>>
    /\ htmlIn = <<>>
    /\ passes = 0

\* the try block around the resource list: the list is read and its entries
\* are copied in, one after the other
ApplyManifest ==
    /\ pc = "resources"
    /\ \E resources \in Manifests, parseOk \in BOOLEAN :
         \E copyOk \in [DOMAIN resources -> BOOLEAN] :
           LET res == applyResources(ws, tree, resources, parseOk, copyOk)
           IN /\ ws' = res.ws
              /\ Log(res.log)
    /\ pc' = "resourced"
    /\ UNCHANGED <<exited, makeMakers, helpOut, tree, wsExists, indexHtml,
                   workPkgMakers, cmds, htmlVars, packFrame>>

\* the resource lists applied to the workspaces of an assembly
SpecResources == InitResources /\ [][ApplyManifest]_vars

(* ------------------------ the Electron main process -------------------- *)
\* main/main.js, the template's entry of the shell; the file holds it in two
\* revisions: the one of the later CLI (lines 1-135, rev = "part_001") and
\* the one of the earlier CLI (lines 137-195, rev = "cli.js")
NodeEnvs == {"", "development", "production"}

\* DEV_URL of main.js: process.env.EXPO_WEB_URL || default
MainDevUrl(rv, webUrl) ==
    Or(webUrl, IF rv = "part_001" THEN Url8081 ELSE Url19006)

\* variant: in development mode the dev server is loaded first
createWindow_devFirst(rv, sh) ==
    IF sh.env = "development"
    THEN [loaded |-> <<"url", MainDevUrl(rv, sh.webUrl)>>, exit |-> <<>>]
    ELSE IF sh.hasProdIndex THEN [loaded |-> <<"file">>, exit |-> <<>>]
    ELSE [loaded |-> <<>>, exit |-> <<1>>]

\* createWindow(): what the window is told to load (PROD_INDEX by loadFile,
\* DEV_URL by loadURL) and the status of app.exit, if it is called
createWindow(rv, sh) ==
    LET isDev == sh.env = "development"
        url == MainDevUrl(rv, sh.webUrl)
    IN IF rv = "part_001"
       THEN IF sh.hasProdIndex THEN [loaded |-> <<"file">>, exit |-> <<>>]
            ELSE IF isDev /\ url # ""
            THEN [loaded |-> <<"url", url>>, exit |-> <<>>]
            ELSE [loaded |-> <<>>, exit |-> <<1>>]
       ELSE IF isDev THEN [loaded |-> <<"url", url>>, exit |-> <<>>]
            ELSE [loaded |-> <<"file">>, exit |-> <<>>]

InitShell ==
    /\ pc = "main"
    /\ envUrl = ""
    /\ devUrl = DEV_URL(envUrl)
    /\ reachable = {}
    /\ StartFresh
    /\ rev \in Revisions
    /\ argv = <<>>
    /\ installed = Tools
    /\ makeMakers = <<>>
    /\ helpOut = <<>>
    /\ wsExists = FALSE
    /\ ws = NoFiles(WsPaths)
    /\ indexHtml = <<>>
    /\ workPkgMakers = <<>>
    /\ trace = <<>>
    /\ cmds = <<>>
    /\ htmlIn = <<>>
    /\ passes = 0
    /\ NoTree
    /\ shell \in [env : NodeEnvs, webUrl : {""} \cup Urls,
                  hasProdIndex : BOOLEAN, loaded : {<<>>}]

shellFrame == <<startVars, argv, makeMakers, helpOut, fsVars, trace, cmds,
                htmlVars, tree0, copies, runs, installed, rev>>

\* the module body: a Squirrel install event quits at once; without the
\* single-instance lock no window is made; the earlier revision has neither
ShellMain ==
    /\ pc = "main"
    /\ \E isSquirrelStartup \in BOOLEAN, gotTheLock \in BOOLEAN :
         IF rev = "part_001" /\ isSquirrelStartup
         THEN Exit(0)
         ELSE /\ pc' = IF rev = "part_001" /\ ~gotTheLock THEN "idle"
                       ELSE "whenReady"
              /\ UNCHANGED exited
    /\ UNCHANGED <<shell, shellFrame>>

\* app.whenReady().then(...): createWindow()
ShellReady ==
    /\ pc = "whenReady"
    /\ LET made == createWindow(rev, shell)
       IN /\ shell' = [shell EXCEPT !.loaded = made.loaded]
          /\ IF made.exit # <<>>
             THEN Exit(made.exit[1])
             ELSE pc' = "loading" /\ UNCHANGED exited
    /\ UNCHANGED shellFrame

\* the promise of loadFile / loadURL settles: the later revision ends the
\* process with 1 when it rejects, the earlier one ignores it
ShellLoadSettled ==
    /\ pc = "loading"
    /\ \E ok \in BOOLEAN :
         IF ok \/ rev = "cli.js"
         THEN pc' = "running" /\ UNCHANGED exited
         ELSE Exit(1)
    /\ UNCHANGED <<shell, shellFrame>>

\* 'window-all-closed': app.quit() except on darwin
ShellWindowAllClosed ==
    /\ pc \in {"loading", "running"}
    /\ \E darwin \in BOOLEAN :
         IF darwin THEN pc' = "idle" /\ UNCHANGED exited
         ELSE Exit(0)
    /\ UNCHANGED <<shell, shellFrame>>

\* ipc 'restart-main': app.relaunch(); app.exit(0)
ShellRestartMain ==
    /\ pc \in {"loading", "running"}
    /\ Exit(0)
    /\ UNCHANGED <<shell, shellFrame>>

NextShell ==
    \/ ShellMain
    \/ ShellReady
    \/ ShellLoadSettled
    \/ ShellWindowAllClosed
    \/ ShellRestartMain

\* one start of the shell
SpecShell == InitShell /\ [][NextShell]_vars

(* ---------------------- start() launches the shell -------------------- *)
\* DEV_URL of the CLI: process.env.EXPO_WEB_URL || default
CliDevUrl(rv, env) == IF rv = "part_001" THEN Or(env, Url8081) ELSE DEV_URL(env)

\* spawnElectron(): the env option of the spawn. The earlier revision adds
\* EXPO_WEB_URL to a copy of process.env; the later one also sets NODE_ENV
spawnElectron(rv, nodeEnv, resolved, env, dev) ==
    IF rv = "part_001"
    THEN [env |-> "development", webUrl |-> Or(resolved, dev)]
    ELSE [env |-> nodeEnv, webUrl |-> Or(resolved, Or(env, dev))]

\* start() at the point where the dev server has answered: resolvedUrl is the
\* endpoint that answered, a candidate of the race in the earlier revision,
\* DEV_URL itself (the only URL awaited) in the later one
InitLaunch ==
    /\ pc = "launch"
    /\ rev \in Revisions
    /\ envUrl \in EnvUrls
    /\ devUrl = CliDevUrl(rev, envUrl)
    /\ resolvedUrl \in IF rev = "part_001" THEN {devUrl}
                       ELSE Range(candidates(envUrl, devUrl))
    /\ reachable = {resolvedUrl}
    /\ now = 0
    /\ child = [c \in Children |-> IF c = "expo" THEN "running" ELSE "none"]
    /\ childCode = [c \in Children |-> <<>>]
    /\ probe = [u \in Urls |-> IF u = resolvedUrl THEN "resolved" ELSE "none"]
    /\ overallFired = FALSE
    /\ lastResp = <<>>
    /\ shellEnvUrl = ""
    /\ isShuttingDown = FALSE
    /\ finalized = FALSE
    /\ livenessInterval = FALSE
    /\ exited = <<>>
    /\ finalizeRuns = 0
    /\ timerClears = 0
    /\ sigints = [c \in Children |-> 0]
    /\ finalizedBy = "none"
    /\ triggerCode = <<>>
    /\ handlerRan = [c \in Children |-> FALSE]
    /\ sigSeen = 0
    /\ firstSignal = ""
    /\ spawns = [c \in Children |-> IF c = "expo" THEN 1 ELSE 0]
    /\ argv = <<>>
    /\ installed = Tools
    /\ makeMakers = <<>>
    /\ helpOut = <<>>
    /\ wsExists = FALSE
    /\ ws = NoFiles(WsPaths)
    /\ indexHtml = <<>>
    /\ workPkgMakers = <<>>
    /\ trace = <<>>
    /\ cmds = <<>>
    /\ htmlIn = <<>>
    /\ passes = 0
    /\ NoTree
    /\ shell \in [env : {""}, webUrl : {""}, hasProdIndex : BOOLEAN,
                  loaded : {<<>>}]

\* the shell is spawned: the earlier revision first stores resolvedUrl in
\* process.env.EXPO_WEB_URL and passes it on, the later one calls
\* spawnElectron(cwd) without a URL; NODE_ENV is what the CLI was started with
ShellLaunch ==
    /\ pc = "launch"
    /\ \E nodeEnv \in NodeEnvs :
         LET passed == IF rev = "cli.js" THEN resolvedUrl ELSE ""
             env == IF rev = "cli.js" THEN resolvedUrl ELSE envUrl
             made == spawnElectron(rev, nodeEnv, passed, env, devUrl)
         IN /\ envUrl' = env
            /\ shellEnvUrl' = made.webUrl
            /\ shell' = [shell EXCEPT !.env = made.env, !.webUrl = made.webUrl]
    /\ child' = [child EXCEPT !["electron"] = "running"]
    /\ spawns' = [spawns EXCEPT !["electron"] = @ + 1]
    /\ pc' = "main"
    /\ UNCHANGED <<devUrl, reachable, now, childCode, isShuttingDown,
                   finalized, livenessInterval, finalizeRuns, timerClears,
                   sigints, handlerRan, sigSeen, firstSignal, ghostVars,
                   raceVars, exited, argv, makeMakers, helpOut, fsVars, trace,
                   cmds, htmlVars, tree0, copies, runs, installed, rev>>

NextLaunch ==
    \/ ShellLaunch
    \/ NextShell

\* the shell as start() launches it
SpecLaunch == InitLaunch /\ [][NextLaunch]_vars

(* ------------------------------- claims -------------------------------- *)
\* the `finalize` flag pair read as the ShutdownState of the design
Rank(sd, fin) == IF fin THEN 2 ELSE IF sd THEN 1 ELSE 0

\* C1: whatever exit events, liveness ticks and signal handlers call
\* finalizeExit, its side effects (clearing the liveness timer, leaving the
\* process) are executed at most once.
C1_FinalizeAtMostOnce == finalizeRuns <= 1 /\ timerClears <= 1

\* finalizeExit has run after both exit listeners and a signal handler ran
C1_Witness ==
    /\ finalizeRuns = 1
    /\ timerClears = 1
    /\ pc = "exited"
    /\ sigSeen > 0
    /\ handlerRan["expo"]
    /\ handlerRan["electron"]

\* C2 as stated: the supervisor finalizes once, with the code carried by the
\* 'exit' event whose listener finalized, or with 0 when the liveness poll
\* finalized.
C2_Original ==
    finalizeRuns > 0 =>
        /\ finalizeRuns = 1
        /\ finalizedBy \in Children => exited = triggerCode
        /\ finalizedBy = "tick" => exited = <<0>>

\* C2 as amended: once both children have terminated the supervisor
\* finalizes, exactly once; its exit code is the numeric code carried by the
\* 'exit' event whose listener finalized, and 0 when that event carries no
\* numeric code (the child was ended by a signal) or when the liveness poll or
\* a signal handler finalized.
C2_FinalizedOnceWithCode ==
    /\ [](finalizeRuns > 0 =>
            /\ finalizeRuns = 1
            /\ pc = "exited"
            /\ exited = <<IF finalizedBy \in Children /\ Len(triggerCode) = 1
                          THEN triggerCode[1] ELSE 0>>)
    /\ (pc = "supervising"
          /\ \A c \in Children : child[c] \in {"zombie", "pending", "exited"})
        ~> (finalizeRuns = 1 /\ pc = "exited")

\* the shell's exit listener finalized with the shell's non-zero code, the
\* web server having exited first
C2_Witness ==
    /\ finalizedBy = "electron"
    /\ triggerCode = <<1>>
    /\ exited = <<1>>
    /\ handlerRan["expo"]

\* C3: the shell is spawned only after a readiness probe got a response; as
\* long as no probe has succeeded there is no shell spawn.
C3_ShellAfterReadiness ==
    spawns["electron"] > 0 =>
        /\ resolvedUrl # ""
        /\ probe[resolvedUrl] = "resolved"
        /\ lastResp # <<>>

C3_Witness == spawns["electron"] = 1 /\ child["electron"] = "running"

\* C4 as stated: when a child's exit listener runs while the supervisor is
\* Running, the supervisor has left Running (isShuttingDown is set) when the
\* listener returns.
C4_ExitLeavesRunning ==
    [][\A c \in Children :
         (/\ pc = "supervising"
          /\ ~isShuttingDown
          /\ ~finalized
          /\ child[c] = "pending"
          /\ child'[c] = "exited") => isShuttingDown']_vars

\* C5: with the interval firing, a supervisor whose children are both gone
\* and for which no exit notification is queued finalizes; a finalization by
\* the liveness poll exits with 0.
C5_LivenessFallback ==
    /\ (pc = "supervising" /\ bothGone /\ JsIdle) ~> (pc = "exited")
    /\ [](finalizedBy = "tick" => exited = <<0>> /\ pc = "exited")

\* the liveness poll finalized and no exit listener ever ran
C5_Witness ==
    /\ finalizedBy = "tick"
    /\ pc = "exited"
    /\ ~handlerRan["expo"]
    /\ ~handlerRan["electron"]

\* C6: every signal handled by the supervisor, whichever of the three, acts
\* the same: the first one sets isShuttingDown and sends SIGINT to each child
\* that still exists, and finalizes with 0 in that run iff both children are
\* gone; a signal that finds isShuttingDown set changes nothing.
C6_SignalHandling ==
    [][(pc = "supervising" /\ sigSeen' # sigSeen) =>
         IF isShuttingDown
         THEN UNCHANGED <<pc, supVars, ghostVars, child>>
         ELSE /\ isShuttingDown'
              /\ \A c \in Children :
                   sigints'[c] = sigints[c]
                       + (IF child[c] \in {"running", "zombie"} THEN 1 ELSE 0)
              /\ IF bothGone
                 THEN /\ pc' = "exited"
                      /\ exited' = <<0>>
                      /\ finalizedBy' = "signal"
                 ELSE /\ pc' = "supervising"
                      /\ ~finalized'
                      /\ exited' = <<>>]_vars

\* a SIGHUP started the shutdown, both children were signalled, a second
\* signal came and the supervisor still waits for the exits
C6_Witness ==
    /\ firstSignal = "SIGHUP"
    /\ sigSeen = 2
    /\ isShuttingDown
    /\ sigints["expo"] = 1
    /\ sigints["electron"] = 1
    /\ pc = "supervising"

\* C7 as stated: the supervisor delivers SIGINT to each child at most once.
C7_NoDoubleSignal == \A c \in Children : sigints[c] <= 1

\* C8: the shutdown state only moves forward: neither flag is ever cleared
\* and the state never moves back towards Running.
C8_Monotonic ==
    [][/\ isShuttingDown => isShuttingDown'
       /\ finalized => finalized'
       /\ Rank(isShuttingDown', finalized') >= Rank(isShuttingDown, finalized)
      ]_vars

\* Running, then ShuttingDown, then Finalized has been walked through
C8_Witness == isShuttingDown /\ finalized /\ pc = "exited" /\ sigSeen > 0

\* C9 as stated: a spawn failure ends the supervisor at once, the shell is
\* not started after a web-server spawn failure, no spawn is repeated.
C9_SpawnFailureFatal ==
    /\ \A c \in Children : child[c] = "failed" => pc \in {"exited", "killed"}
    /\ child["expo"] \in {"spawnerr", "failed"} => spawns["electron"] = 0
    /\ \A c \in Children : spawns[c] <= 1

\* C10: a response of any status to any candidate, received while the race
\* is open, settles the race with that candidate; the URL returned is always
\* a reachable one, so with one reachable candidate it is that one.
C10_AnyResponseWins ==
    /\ lastResp # <<>> => pc # "probing" /\ resolvedUrl = lastResp[1]
    /\ resolvedUrl # "" => resolvedUrl \in reachable

\* the only reachable candidate is the last of three and answered 503
C10_Witness ==
    /\ Len(candidates(UrlCustom, devUrl)) = 3
    /\ devUrl = UrlCustom
    /\ reachable = {Url19006}
    /\ resolvedUrl = Url19006
    /\ lastResp = <<Url19006, 503>>
    /\ now >= TickMs
    /\ probe[UrlCustom] = "inflight"
    /\ probe[Url8081] = "inflight"

C12_OneWinner ==
    /\ [](spawns["electron"] > 0 =>
            /\ resolvedUrl \in Range(candidates(envUrl, devUrl))
            /\ shellEnvUrl = resolvedUrl
            /\ envUrl = resolvedUrl)
    /\ [][resolvedUrl # "" => resolvedUrl' = resolvedUrl]_vars
    /\ [][shellEnvUrl # "" => shellEnvUrl' = shellEnvUrl]_vars

\* the second candidate won; afterwards the third answered, the first gave up
\* after the deadline and the overall timer fired
C12_Witness ==
    /\ devUrl = UrlCustom
    /\ resolvedUrl = Url8081
    /\ shellEnvUrl = Url8081
    /\ probe[Url19006] = "resolved"
    /\ probe[UrlCustom] = "rejected"
    /\ overallFired
    /\ pc = "supervising"

\* position of a stage in the order of Stages, 0 for a step that is no stage
StageIndex(st) ==
    IF \E i \in 1..Len(Stages) : Stages[i] = st
    THEN CHOOSE i \in 1..Len(Stages) : Stages[i] = st
    ELSE 0

\* positions of the trace at which a stage starts
Started == {i \in 1..Len(trace) : trace[i][2] = "start"}

\* the event ev is in the trace before position i
Before(i, ev) == \E k \in 1..(i - 1) : trace[k] = ev

C14_StageFailureAborts ==
    \A i \in 1..Len(trace) :
        (trace[i][2] = "fail" /\ StageIndex(trace[i][1]) > 0
            /\ trace[i][1] # "link") =>
            /\ i = Len(trace)
            /\ pc = "exited"
            /\ exited # <<0>>

\* the exit code the command-line contract assigns to a failing step
\* (0 = none assigned): 2 missing binary, 3 prebuild/linking, 4 export,
\* 5 package/make, 1 workspace reset
ContractCode(step) ==
    CASE step \in {"binaries", "help"} -> 2
      [] step \in {"prebuild", "link"} -> 3
      [] step \in {"capability", "export"} -> 4
      [] step \in {"package", "make"} -> 5
      [] step = "reset" -> 1
      [] OTHER -> 0

\* C15 as stated: when a step fails and the run ends, the exit code is the
\* one assigned to that step, and a stage without an assigned code does not
\* end the run with the code of another stage.
C15_ExitCodeNamesStage ==
    (pc = "exited" /\ trace # <<>> /\ trace[Len(trace)][2] = "fail") =>
        LET step == trace[Len(trace)][1]
        IN IF ContractCode(step) # 0
           THEN exited = <<ContractCode(step)>>
           ELSE exited[1] \notin {1, 2, 3, 4, 5}

\* the removal of an existing workspace was begun and threw
RemovalFailed ==
    \E i \in 1..(Len(trace) - 1) :
        /\ trace[i] = <<"reset", "removing">>
        /\ trace[i + 1] = <<"reset", "fail">>
        /\ wsExists

Advertised(text) ==
    \E i \in 1..Len(text) :
        /\ i + Len(Export) - 1 <= Len(text)
        /\ \A k \in 1..Len(Export) : text[i + k - 1] = Export[k]

\* C17: expo is run in two forms only, `--help` and the one export form;
\* the export is run, once, only if the help output contained "export"; if
\* the help command ran and its output does not contain it, the run ends with
\* status 4 having run nothing but the help command, and no stage follows.
C17_ExportOnlyIfAdvertised ==
    /\ \A n \in 1..Len(cmds) :
         /\ cmds[n] \in {HelpCmd, ExportCmd, PackageCmd, MakeCmd}
         /\ cmds[n] = ExportCmd =>
              /\ helpOut # <<>>
              /\ Advertised(helpOut[1])
              /\ \A m \in 1..Len(cmds) : cmds[m] = ExportCmd => m = n
    /\ (helpOut # <<>> /\ helpOut[1] # <<>> /\ ~Advertised(helpOut[1])) =>
         /\ pc = "exited"
         /\ exited = <<4>>
         /\ cmds = <<HelpCmd>>
         /\ trace[Len(trace)] = <<"capability", "fail">>
         /\ \A i \in Started : StageIndex(trace[i][1]) < StageIndex("export")

\* the installed CLI offers build:web only: the run ended with 4 after the
\* help command
C17_Witness ==
    /\ helpOut # <<>>
    /\ helpOut[1] # <<>>
    /\ ~Advertised(helpOut[1])
    /\ exited = <<4>>
    /\ cmds = <<HelpCmd>>
    /\ <<"reset", "ok">> \in Range(trace)

\* the caller gave --make with at least one token
TokensSupplied == makeMakers # <<>> /\ makeMakers[1] # <<>>

ContainsNoCase(name, tok) ==
    \E i \in 1..Len(name) :
        /\ i + Len(tok) - 1 <= Len(name)
        /\ \A k \in 1..Len(tok) : Lower(name[i + k - 1]) = Lower(tok[k])

\* C19 (the revision with --make): with tokens supplied, the makers written
\* to the workspace package.json are exactly the known makers whose name
\* contains some token, letter case disregarded, each once; `--make zip`
\* writes the zip maker alone; make is started after a successful package
\* command iff some maker was written, and with none written the run ends
\* with status 0.
C19_MakersMatchTokens ==
    (rev = "part_001" /\ TokensSupplied /\ <<"assemble", "ok">> \in Range(trace))
    =>  /\ workPkgMakers # <<>>
        /\ Range(workPkgMakers[1]) =
             {m \in Range(DefaultMakers) :
                \E t \in Range(makeMakers[1]) : ContainsNoCase(m, t)}
        /\ Len(workPkgMakers[1]) = Cardinality(Range(workPkgMakers[1]))
        /\ argv = <<Package, MakeFlag, <<"z", "i", "p">> >> =>
             workPkgMakers[1] = <<MakerZip>>
        /\ <<"package", "ok">> \in Range(trace) =>
             IF workPkgMakers[1] = <<>>
             THEN /\ pc = "done"
                  /\ exited = <<0>>
                  /\ MakeCmd \notin Range(cmds)
             ELSE MakeCmd \in Range(cmds)

\* "--make=zip, deb," wrote the zip and deb makers and make ran
C19_Witness ==
    /\ makeMakers = << << <<"z", "i", "p">>, <<"d", "e", "b">> >> >>
    /\ workPkgMakers = << <<MakerZip, MakerDeb>> >>
    /\ cmds = <<HelpCmd, ExportCmd, PackageCmd, MakeCmd>>
    /\ pc = "done"

\* how often p occurs in s
Occurrences(s, p) == Cardinality({i \in 1..Len(s) : matchAt(s, p, i)})

DotSlash == <<".", "/">>

\* C20: transforming a transformed text changes nothing: every pass after
\* the first leaves index.html as the first pass wrote it, with as many base
\* tags and as many "./" prefixes as after the first pass.
C20_TransformIdempotent ==
    passes >= 1 =>
        LET once == transformHtml(htmlIn[1])
            again == transformHtml(indexHtml[1])
        IN /\ indexHtml[1] = once
           /\ again = once
           /\ Occurrences(again, BaseTag) = Occurrences(once, BaseTag)
           /\ Occurrences(again, DotSlash) = Occurrences(once, DotSlash)

\* two passes over "<head> href="/ SRC = '/": the first inserted the base
\* tag and made both references relative
C20_Witness ==
    /\ passes = 2
    /\ htmlIn = <<concat(<<HeadTag,
                           <<" ", "h", "r", "e", "f", "=", "\"", "/">>,
                           <<" ", "S", "R", "C", " ", "=", " ", "'", "/">> >>)>>
    /\ indexHtml # htmlIn
    /\ Occurrences(indexHtml[1], BaseTag) = 1
    /\ Occurrences(indexHtml[1], DotSlash) = 3

\* C21: copying again changes nothing: after every copy but the first the
\* tree is the one the first copy left, and a file that was in the
\* destination before the first copy has the content it had then.
C21_CopyMissingIdempotent ==
    (pc = "copy" /\ copies >= 1) =>
        LET once == copyRecursiveSkipExisting(tree0, SrcRoot, DestRoot,
                                              SkipFiles(rev)).fs
            again == copyRecursiveSkipExisting(tree, SrcRoot, DestRoot,
                                               SkipFiles(rev)).fs
        IN /\ tree = once
           /\ again = once
           /\ \A p \in CopyPaths :
                (Head(p) = "dest" /\ tree0[p] \notin {"", "dir"}) =>
                    tree[p] = tree0[p]

\* the destination had its own main.js/main.js, the source that and
\* main.js/preload.js: after two copies the first is the developer's and
\* the second the template's
C21_Witness ==
    /\ pc = "copy"
    /\ copies = 2
    /\ rev = "cli.js"
    /\ tree0[<<"dest", "main.js", "main.js">>] = "dev"
    /\ tree0[<<"dest", "main.js", "preload.js">>] = ""
    /\ tree0[<<"src", "main.js", "main.js">>] = "tpl"
    /\ tree[<<"dest", "main.js", "main.js">>] = "dev"
    /\ tree[<<"dest", "main.js", "preload.js">>] = "tpl"

\* the paths of the project's electron/ folder
InElectron == {p \in ProjPaths : p[1] = "electron"}

\* C22: a prebuild command that finds no electron/ and ends with status 0
\* has created it with the template's main/main.js in it (given the
\* package has its template); and whatever file was in electron/ when a
\* prebuild command began, edited by the developer or not, is as it was.
C22_PrebuildKeepsEdits ==
    (pc = "exited" /\ argv = <<Prebuild>>) =>
        /\ (/\ tree0[Paths.target] = ""
            /\ tree0[Paths.srcMainJs] # ""
            /\ exited = <<0>>) =>
               /\ tree[Paths.target] = "dir"
               /\ tree[Paths.mainJs] = "tpl"
        /\ \A p \in InElectron :
             tree0[p] \notin {"", "dir"} => tree[p] = tree0[p]

\* a second prebuild, run after the developer edited the main.js the first
\* one had copied next to the .gitignore it had written
C22_Witness ==
    /\ pc = "exited"
    /\ argv = <<Prebuild>>
    /\ runs = 2
    /\ exited = <<0>>
    /\ tree0[Paths.mainJs] = "dev"
    /\ tree[Paths.mainJs] = "dev"
    /\ tree[Paths.gi] = "new"

Generated == {Paths.preloadJs, Paths.resourcesPath}

Spawned(t) ==
    \/ t \in Children /\ spawns[t] > 0
    \/ \E i \in 1..Len(cmds) : cmds[i][1] = t

\* C24: a tool that is not installed is never spawned; and the step that
\* would run it (spawnExpoWeb at the start of start, spawnElectron after
\* the readiness race, the binary checks of package) spawns nothing and
\* ends the process with status 2.
C24_MissingBinaryExits2 ==
    [][/\ \A t \in Tools : t \notin installed => ~Spawned(t)'
       /\ LET due == IF argv # <<>>
                     THEN IF pc = "binaries"
                          THEN {"expo", "electron-forge"} ELSE {}
                     ELSE IF pc = "init" THEN {"expo"}
                     ELSE IF pc = "raceWon" THEN {"electron"}
                     ELSE {}
          IN (due \ installed # {} /\ pc' # pc) =>
                /\ pc' = "exited"
                /\ exited' = <<2>>
                /\ spawns' = spawns
                /\ cmds' = cmds]_vars

\* start found the web server, then no electron binary: status 2, and only
\* expo was ever spawned
C24_Witness ==
    /\ argv = <<>>
    /\ installed = {"expo", "electron-forge"}
    /\ resolvedUrl # ""
    /\ exited = <<2>>
    /\ spawns = [c \in Children |-> IF c = "expo" THEN 1 ELSE 0]

\* C25: in the assembly of the later revision an entry of the resource list
\* whose source is missing is reported and skipped: neither its destination
\* nor the destination's directory is made, the entries after it are still
\* handled, and the assembly does not end because of it; without the list
\* the assembly reports that and goes on without copying a resource
C25_MissingResourceSkipped ==
    [][(pc = "assemble" /\ rev = "part_001" /\ pc' # pc) =>
         LET new == SubSeq(trace', Len(trace) + 1, Len(trace'))
             events == SelectSeq(new, LAMBDA e : e[1] = "resources")
             failed == <<"assemble", "fail">> \in Range(new)
         IN /\ \A i \in DOMAIN Resources :
                  ~existsSync(tree, Resources[i].from) =>
                      /\ ws'[Resources[i].to] = ""
                      /\ ws'[Resources[i].dpar] = ""
            /\ <<"resources", "missing">> \in Range(events) =>
                  /\ Len(events) = Len(Resources)
                  /\ \A i \in DOMAIN Resources :
                       events[i] = <<"resources", "missing">>
                           <=> ~existsSync(tree, Resources[i].from)
            /\ ~existsSync(tree, Paths.resourcesPath) =>
                  /\ events \in {<<>>, << <<"resources", "none">> >>}
                  /\ \A i \in DOMAIN Resources : ws'[Resources[i].to] = ""
            /\ (events # <<>> /\ ~failed) =>
                  /\ pc' = "packageRun"
                  /\ ws'["package.json"] = "new"
                  /\ cmds' = Append(cmds, PackageCmd)]_vars

\* the package command runs: the list names a source that is missing and
\* one that is there; only the second is in the workspace
C25_Witness ==
    /\ pc = "packageRun"
    /\ rev = "part_001"
    /\ existsSync(tree, Paths.resourcesPath)
    /\ ~existsSync(tree, Resources[1].from)
    /\ <<"resources", "missing">> \in Range(trace)
    /\ ws[Resources[1].dpar] = ""
    /\ ws[Resources[2].to] = "gen"

\* C26: when the autolinker fails in a package run, the run goes on to the
\* binary checks with nothing exited, and a run in which it failed never
\* ends with status 3
C26_AutolinkFailureNotFatal ==
    [][/\ (pc = "link" /\ pc' # pc) =>
            /\ pc' = "binaries"
            /\ exited' = exited
            /\ trace'[Len(trace')] \in {<<"link", "ok">>, <<"link", "fail">>}
       /\ (<<"link", "fail">> \in Range(trace') /\ pc' # pc) =>
            /\ exited' # <<3>>
            /\ pc = "binaries" =>
                 \/ pc' = "reset"
                 \/ /\ pc' = "exited" /\ exited' = <<2>>
                    /\ {"expo", "electron-forge"} \ installed # {}]_vars

\* the autolinker failed and the run went through every later stage
C26_Witness ==
    /\ pc = "done"
    /\ exited = <<0>>
    /\ <<"link", "fail">> \in Range(trace)
    /\ <<"reset", "ok">> \in Range(trace)
    /\ <<"make", "ok">> \in Range(trace)

\* a maker whose name contains "rpm", whatever the case
isRpmMaker(m) == ContainsNoCase(m, Rpm)

\* C27: when rpmbuild is not on the host, the makers written to the
\* workspace's package.json hold no RPM maker
C27_RpmMakerDropped ==
    (/\ pc \in {"packageRun", "makeRun", "done"}
     /\ workPkgMakers # <<>>
     /\ ~commandExistsInPath("rpmbuild")) =>
        \A i \in 1..Len(workPkgMakers[1]) : ~isRpmMaker(workPkgMakers[1][i])

\* C28: a run of the prebuild command that has ended has ended with
\* status 0
C28_PrebuildExitsZero ==
    (pc = "exited" /\ argv # <<>> /\ argv[1] = Prebuild) => exited = <<0>>

\* C29: in a run of start or package no command is started twice: the web
\* server and the shell are spawned at most once each, no command line of
\* package occurs twice among those run, and after export, package or make
\* has failed the run has ended with that failure as its last event
C29_SpawnedAtMostOnce ==
    /\ \A c \in Children : spawns[c] <= 1
    /\ \A i, j \in 1..Len(cmds) : cmds[i] = cmds[j] => i = j
    /\ \A s \in {"export", "package", "make"} :
         <<s, "fail">> \in Range(trace) =>
             /\ pc = "exited"
             /\ trace[Len(trace)] = <<s, "fail">>
    /\ \A i \in 1..Len(trace) :
         (trace[i][1] \in {"export", "package", "make"}
            /\ trace[i][2] \in {"error", "exit 1", "killed"}) =>
             trace[i + 1] = <<trace[i][1], "fail">>

\* the export ran once, ended with a non-zero status, and the run is over
C29_Witness ==
    /\ pc = "exited"
    /\ exited = <<4>>
    /\ cmds = <<HelpCmd, ExportCmd>>
    /\ trace[Len(trace) - 1] = <<"export", "exit 1">>

\* C30 (the later revision of main.js): createWindow() loads the production
\* index whenever it exists, development mode or not; without it, it loads
\* the dev-server URL if NODE_ENV is development; otherwise it loads nothing
\* and ends the process with a non-zero status
C30_ContentSource ==
    [][(rev = "part_001" /\ pc = "whenReady" /\ pc' # pc) =>
         IF shell.hasProdIndex
         THEN shell'.loaded = <<"file">> /\ exited' = <<>>
         ELSE IF shell.env = "development"
         THEN /\ shell'.loaded = <<"url", MainDevUrl(rev, shell.webUrl)>>
              /\ exited' = <<>>
         ELSE /\ shell'.loaded = <<>>
              /\ pc' = "exited"
              /\ exited' # <<>> /\ exited' # <<0>>]_vars

\* development mode with a production index: the file was loaded
C30_Witness ==
    /\ rev = "part_001"
    /\ pc = "running"
    /\ shell.env = "development"
    /\ shell.hasProdIndex
    /\ shell.loaded = <<"file">>

\* q (below the roots) and the directories above it are none of them in the
\* way in the destination: each is missing there or a directory, and q
\* itself is missing
Copyable(q) ==
    /\ q # <<>>
    /\ tree0[SrcRoot \o q] \notin {"", "locked"}
    /\ tree0[DestRoot \o q] = ""
    /\ \A n \in 1..Len(q) : q[n] \notin SkipFiles(rev)
    /\ \A n \in 0..(Len(q) - 1) :
         /\ tree0[DestRoot \o SubSeq(q, 1, n)] \in {"", "dir"}
         /\ tree0[SrcRoot \o SubSeq(q, 1, n)] = "dir"

\* C31: whatever fails for one entry, a copy brings every other entry of
\* the source that the destination was missing into the destination
C31_CopyContinuesPastErrors ==
    (pc = "copy" /\ copies >= 1) =>
        \A q \in BelowRoot : Copyable(q) => tree[DestRoot \o q] # ""

\* C32 (the revision with a skip list): a copy leaves every destination
\* path alone that has preload.js as its name or as the name of a directory
\* above it, present in the destination or not; and a run of the prebuild
\* command leaves electron/main/preload.js as it was, missing included
C32_SkipListNeverCopied ==
    /\ (pc = "copy" /\ copies >= 1 /\ rev = "part_001") =>
          \A q \in BelowRoot :
              (\E n \in 1..Len(q) : q[n] = "preload.js") =>
                  tree[DestRoot \o q] = tree0[DestRoot \o q]
    /\ (pc = "exited" /\ argv # <<>> /\ argv[1] = Prebuild
           /\ rev = "part_001") =>
          tree[Paths.preloadJs] = tree0[Paths.preloadJs]

\* the source has preload.js and main.js/preload.js, the destination has
\* neither: after the copy main.js is a directory there, and both are
\* still missing
C32_Witness ==
    /\ pc = "copy"
    /\ copies = 1
    /\ rev = "part_001"
    /\ tree0[<<"src", "preload.js">>] = "tpl"
    /\ tree0[<<"src", "main.js", "preload.js">>] = "tpl"
    /\ tree0[<<"src", "main.js", "main.js">>] = "tpl"
    /\ tree0[<<"dest">>] = ""
    /\ tree[<<"dest", "main.js", "main.js">>] = "tpl"
    /\ tree[<<"dest", "preload.js">>] = ""
    /\ tree[<<"dest", "main.js", "preload.js">>] = ""

\* C33: whenever finalizeExit takes effect, by an exit handler, a signal or
\* the liveness poll, neither child is a process any more: none is running
\* and none is dead but unreaped
C33_FinalizeOnlyWhenBothGone ==
    [][finalizeRuns' > finalizeRuns =>
         \A c \in Children :
             /\ child[c] \notin {"running", "zombie"}
             /\ child'[c] \notin {"running", "zombie"}]_vars

\* a signal found both children gone and finalized
C33_Witness ==
    /\ finalizedBy = "signal"
    /\ pc = "exited"
    /\ finalizeRuns = 1
    /\ \A c \in Children : child[c] \notin {"none", "running", "zombie"}

\* C34: when the process of start has ended, every child it spawned that is
\* still running has been sent SIGINT by it
C34_NoChildLeftBehind ==
    (argv = <<>> /\ pc = "exited") =>
        \A c \in Children : child[c] = "running" => sigints[c] > 0

\* C35: once the web server has ended while the shell is running, the shell
\* is sent SIGINT by the supervisor (or has ended by itself before that)
C35_ShellInterruptedAfterServerExit ==
    (/\ child["expo"] \in {"zombie", "pending", "exited"}
     /\ child["electron"] = "running")
        ~> (sigints["electron"] > 0 \/ child["electron"] # "running")

\* C36: when start launches the shell and its working directory holds no
\* production index, the shell's environment carries NODE_ENV=development and
\* the endpoint that answered, the window is told to load that endpoint, and
\* the shell ends with 1 only after that load was attempted
C36_ShellLoadsDevServer ==
    (pc # "launch" /\ ~shell.hasProdIndex) =>
        /\ shell.env = "development"
        /\ shell.webUrl = resolvedUrl
        /\ pc \in {"loading", "running"} => shell.loaded = <<"url", resolvedUrl>>
        /\ exited = <<1>> => shell.loaded = <<"url", resolvedUrl>>

\* C37: a package run that ends with status 2 because the expo or the
\* electron-forge binary is missing, or with status 3 because prebuild
\* failed, has left the packaging workspace as it found it: no step of the
\* run up to and including the aborting one changes electron/.build
C37_AbortBeforeReset ==
    [][(\/ pc \in {"init", "prebuild", "link", "binaries"}
        \/ /\ exited = <<>>
           /\ exited' \in {<<2>>, <<3>>}
           /\ trace'[Len(trace')] \in {<<"binaries", "fail">>,
                                       <<"prebuild", "fail">>})
           => UNCHANGED <<wsExists, ws, indexHtml, workPkgMakers>>]_vars

\* the binaries are missed over a workspace an earlier run left behind
C37_Witness ==
    /\ pc = "exited"
    /\ exited = <<2>>
    /\ trace[Len(trace)] = <<"binaries", "fail">>
    /\ wsExists
    /\ \A f \in WsPaths : ws[f] = "old"
    /\ indexHtml = <<DocPlain>>

\* C38: when the resource list is applied in the assembly, every file that
\* the export or the copy of electron/main has put into the workspace holds
\* afterwards what it held before, whatever the list names as destinations
C38_ResourcesKeepPlacedFiles ==
    [][pc = "resources" =>
         \A f \in WsPaths : ws[f] \notin {"", "dir"} => ws'[f] = ws[f]]_vars

\* entries whose destinations are the bundle and the entry point were
\* handled as copied (their directories are recorded), the files are as the
\* export and the copy of electron/main left them
C38_Witness ==
    /\ pc = "resourced"
    /\ ws["app"] = "dir"
    /\ ws["main"] = "dir"
    /\ ws["app/bundle.js"] = "new"
    /\ ws["main/main.js"] \in {"tpl", "dev"}
    /\ existsSync(tree, Colliding[1].from)
    /\ existsSync(tree, Colliding[2].from)
    /\ Len(SelectSeq(trace, LAMBDA e : e = <<"resources", "copied">>)) >= 2

====
